---- MODULE Spec2Model ----
(***************************************************************************)
(* Model of the bilibili_api crate: the credential refresh flow            *)
(* (login/mod.rs, wbi_client/mod.rs) and the wbi request signer            *)
(* (wbi_client/sign.rs).                                                   *)
(*                                                                         *)
(* Option<T> is modelled as a sequence: <<>> is None, <<v>> is Some(v).    *)
(* BResult<T> is a record [kind, code, val]: kind "Ok" carries val = <<v>>,*)
(* every other kind is the BError variant of that name.                    *)
(***************************************************************************)
EXTENDS Integers, Sequences, FiniteSets, TLC

\* ------------------------------------------------------------------ bounds
\* refresh attempts (calls of with_credential) per Credential
MaxAttempts == 2
\* refresh tokens the server can issue after the initial token 0
MaxTokens == 2
\* pairs in the query handed to one signing call
MaxPairs == 2
\* seconds the clock can be past its first value
MaxTick == 2
\* days after 1970-01-01 a key is derived on
MaxDay == 1
\* polls of one QR login that return a state
MaxPolls == 3
\* characters in the cookies string of a Credential that is saved
MaxStrLen == 2
\* Longest string url_to_key is applied to exhaustively.
MaxUrlLen == 3
\* bytes in a vector of several bytes handed to hex_digest
MaxBytes == 2

\* ------------------------------------------------------------- basic types
None == <<>>
Some(v) == <<v>>

Ok(v) == [kind |-> "Ok", code |-> 0, val |-> <<v>>]
\* BError::from_net_err
from_net_err == [kind |-> "NetworkError", code |-> 0, val |-> <<>>]
\* BError::from_json_err
from_json_err == [kind |-> "JsonParseError", code |-> 0, val |-> <<>>]
\* BError::from_internal_err and the literal BError::InternalError(..)
from_internal_err == [kind |-> "InternalError", code |-> 0, val |-> <<>>]
\* BError::from_bilibili_err
from_bilibili_err(c) == [kind |-> "BilibiliError", code |-> c, val |-> <<>>]
\* BError::WbiTokenExpired
WbiTokenExpired == [kind |-> "WbiTokenExpired", code |-> 0, val |-> <<>>]

IsOk(r) == r.kind = "Ok"
Unwrap(r) == r.val[1]

\* The two Credential objects that can exist side by side (each loaded from
\* the same persisted file); check_and_refresh takes &mut self, so one
\* Credential runs at most one attempt at a time.
Holders == {1, 2}

\* ------------------------------------------------------------ cookie store
CookieNames == {"bili_jct", "SESSDATA"}
EmptyJar == [n \in CookieNames |-> None]
\* A response without Set-Cookie headers.
NoSetCookie == [n \in CookieNames |-> None]
\* The Set-Cookie headers a response can carry, with cookie value v:
\* nothing, both cookies with an expiry (persistent), or a session bili_jct.
SetCookieChoices(v) ==
  { NoSetCookie,
    [n \in CookieNames |-> Some([value |-> v, persistent |-> TRUE])],
    [n \in CookieNames |->
       IF n = "bili_jct" THEN Some([value |-> v, persistent |-> FALSE]) ELSE None] }
\* The cookie_provider of the reqwest client stores a response's cookies.
set_cookies(j, sc) == [n \in CookieNames |-> IF sc[n] = None THEN j[n] ELSE sc[n]]
\* CookieStore::save_json writes the unexpired persistent cookies only.
save_json(j) ==
  [n \in CookieNames |-> IF j[n] # None /\ j[n][1].persistent THEN j[n] ELSE None]
\* CookieStore::load_json reads the cookies of the serialized form back.
load_json(s) == [n \in CookieNames |-> s[n]]
\* CookieStore::get(domain, path, name)
jar_get(j, name) == j[name]

\* --------------------------------------------------------------- responses
\* Envelope codes other than 0 that the server answers with.
NonZeroCodes == {-111, 86095}
\* The timestamp the check endpoint reports.
Timestamps == {1684746387}
\* Texts of the "1-name" element of the CSRF page.
RefreshCsrfs == {10, 11}
\* What can happen to one JSON round trip: nothing, the request is lost before
\* the server sees it, the response is lost after the server acted, the body
\* is no valid envelope, or the envelope has code 0 and no data.
Faults == {"none", "lost_request", "lost_response", "bad_json", "no_data"}
Served(fault) == fault # "lost_request"

\* The envelope the client reads from the wire.
Wire(fault, code, data) ==
  [wire |-> CASE fault \in {"lost_request", "lost_response"} -> "send_err"
              [] fault = "bad_json" -> "bad_json"
              [] OTHER -> "ok",
   code |-> code,
   data |-> IF fault = "no_data" THEN None ELSE data]

\* do_request: send, then parse the body as BCommonJson<T>.
do_request(resp) ==
  IF resp.wire = "send_err" THEN from_net_err
  ELSE IF resp.wire = "bad_json" THEN from_json_err
  ELSE Ok([code |-> resp.code, data |-> resp.data])

\* check_cookie
check_cookie(resp) ==
  LET r == do_request(resp) IN
  IF ~IsOk(r) THEN r
  ELSE IF Unwrap(r).code # 0 THEN from_bilibili_err(Unwrap(r).code)
  ELSE IF Unwrap(r).data = None THEN from_json_err
  ELSE Ok(Unwrap(r).data[1])

\* refresh_cookie, from the response on
refresh_cookie(resp) ==
  LET r == do_request(resp) IN
  IF ~IsOk(r) THEN r
  ELSE IF Unwrap(r).code # 0 THEN from_bilibili_err(Unwrap(r).code)
  ELSE IF Unwrap(r).data = None THEN from_json_err
  ELSE Ok(Unwrap(r).data[1])

\* Mutant: the envelope code of the confirmation is not looked at.
confirm_refresh_ignore_code(resp) ==
  IF resp.wire = "send_err" THEN from_net_err
  ELSE IF resp.wire = "bad_json" THEN from_json_err
  ELSE Ok("unit")

\* confirm_refresh, from the response on (BCommonJson<()>: data is not read)
confirm_refresh(resp) ==
  IF resp.wire = "send_err" THEN from_net_err
  ELSE IF resp.wire = "bad_json" THEN from_json_err
  ELSE IF resp.code # 0 THEN from_bilibili_err(resp.code)
  ELSE Ok("unit")

\* gen_correspond_path: hex of RSA-OAEP("refresh_{ts}"); the ciphertext is kept
\* symbolic. rsa_ok is whether key parsing and encryption succeeded.
gen_correspond_path(ts, rsa_ok) ==
  IF rsa_ok THEN Ok(<<"hex_rsa_oaep", "refresh_", ts>>) ELSE from_internal_err

\* get_refresh_csrf, from the response on. page.send is whether the GET
\* succeeded, page.text whether the body decoded, page.node the "1-name"
\* element of the document if it has one.
\* Mutant: a page without the element is reported as a network error.
get_refresh_csrf_net_err(page) ==
  IF ~page.send THEN from_net_err
  ELSE IF ~page.text THEN from_internal_err
  ELSE IF page.node = None THEN from_net_err
  ELSE Ok(page.node[1])

get_refresh_csrf(page) ==
  IF ~page.send THEN from_net_err
  ELSE IF ~page.text THEN from_internal_err
  ELSE IF page.node = None THEN from_internal_err
  ELSE Ok(page.node[1])
Pages ==
  {[send |-> FALSE, text |-> FALSE, node |-> None],
   [send |-> TRUE, text |-> FALSE, node |-> None],
   [send |-> TRUE, text |-> TRUE, node |-> None]}
  \cup {[send |-> TRUE, text |-> TRUE, node |-> Some(c)] : c \in RefreshCsrfs}

\* get_bilibili_cookie: read lock, then the named cookie's value.
get_bilibili_cookie(j, name, lock_ok) ==
  IF ~lock_ok THEN from_internal_err
  ELSE IF jar_get(j, name) = None THEN from_internal_err
  ELSE Ok(jar_get(j, name)[1].value)

\* ------------------------------------------------------- wbi signing: text
\* A string is a sequence of one-character strings, in the byte order below.
Ascii ==
  <<" ", "%", "&", "+", "0", "1", "2", "3", "4", "5", "6", "7", "8", "9", "=",
    "B", "D", "_", "a", "b", "d", "i", "r", "s", "t", "w", "x", "z">>
CharOrd(c) == CHOOSE i \in 1..Len(Ascii) : Ascii[i] = c

\* <&str as Ord>::cmp(k1, k2) = Less: bytewise lexicographic.
RECURSIVE StrLess(_, _)
StrLess(k1, k2) ==
  IF k2 = <<>> THEN FALSE
  ELSE IF k1 = <<>> THEN TRUE
  ELSE IF Head(k1) = Head(k2) THEN StrLess(Tail(k1), Tail(k2))
  ELSE CharOrd(Head(k1)) < CharOrd(Head(k2))

\* u64::to_string
Digits == <<"0", "1", "2", "3", "4", "5", "6", "7", "8", "9">>
RECURSIVE to_dec(_)
to_dec(n) ==
  IF n < 10 THEN <<Digits[n + 1]>> ELSE to_dec(n \div 10) \o <<Digits[(n % 10) + 1]>>

\* form_urlencoded::byte_serialize on one character: alphanumerics and *-._
\* stay, a space becomes +, any other byte becomes %XX.
byte_serialize_char(c) ==
  CASE c = " " -> <<"+">>
    [] c = "%" -> <<"%", "2", "5">>
    [] c = "&" -> <<"%", "2", "6">>
    [] c = "+" -> <<"%", "2", "B">>
    [] c = "=" -> <<"%", "3", "D">>
    [] OTHER -> <<c>>
RECURSIVE byte_serialize(_)
byte_serialize(str) ==
  IF str = <<>> THEN <<>>
  ELSE byte_serialize_char(Head(str)) \o byte_serialize(Tail(str))

\* serde_urlencoded::to_string on a sequence of pairs: k=v joined by &.
RECURSIVE to_string(_)
to_string(pairs) ==
  IF pairs = <<>> THEN <<>>
  ELSE LET p == byte_serialize(pairs[1][1]) \o <<"=">> \o byte_serialize(pairs[1][2])
       IN IF Len(pairs) = 1 THEN p ELSE p \o <<"&">> \o to_string(Tail(pairs))

\* The segments of str between occurrences of sep.
RECURSIVE split(_, _)
split(str, sep) ==
  IF str = <<>> THEN << <<>> >>
  ELSE LET rest == split(Tail(str), sep) IN
       IF Head(str) = sep THEN << <<>> >> \o rest
       ELSE << <<Head(str)>> \o rest[1] >> \o Tail(rest)

\* The name and the value of one segment: cut at its first "=".
RECURSIVE split_once(_)
split_once(seg) ==
  IF seg = <<>> THEN << <<>>, <<>> >>
  ELSE IF Head(seg) = "=" THEN << <<>>, Tail(seg) >>
  ELSE LET r == split_once(Tail(seg)) IN << <<Head(seg)>> \o r[1], r[2] >>

\* form_urlencoded decode leaves a part borrowed only when it holds neither a
\* + nor a percent escape (in a string byte_serialize wrote, every % starts one).
is_borrowed(part) == \A i \in 1..Len(part) : part[i] \notin {"+", "%"}

\* serde_urlencoded::from_str::<Vec<(&str, &str)>>: the nonempty segments, each
\* cut into name and value; a &str can only be deserialized from a borrowed part.
from_str(str) ==
  LET segs == SelectSeq(split(str, "&"), LAMBDA g : g # <<>>)
      pairs == [i \in 1..Len(segs) |-> split_once(segs[i])]
  IN IF \A i \in 1..Len(pairs) : is_borrowed(pairs[i][1]) /\ is_borrowed(pairs[i][2])
     THEN Ok(pairs)
     ELSE from_internal_err

\* Mutant: the pairs are left in the caller's order.
sort_by_key_none(v) == v

\* v.sort_by(|(k1, _), (k2, _)| k1.cmp(k2)): stable, ascending by key.
RECURSIVE insert_sorted(_, _)
insert_sorted(p, v) ==
  IF v = <<>> THEN <<p>>
  ELSE IF StrLess(p[1], v[1][1]) THEN <<p>> \o v
  ELSE <<v[1]>> \o insert_sorted(p, Tail(v))
\* Mutant: the pairs not yet placed are appended as they come.
sort_fold_append(done, todo) == done \o todo

RECURSIVE sort_fold(_, _)
sort_fold(done, todo) ==
  IF todo = <<>> THEN done ELSE sort_fold(insert_sorted(todo[1], done), Tail(todo))
sort_by_key(v) == sort_fold(<<>>, v)

\* format!("{:x}", Md5::digest(str)): the digest is kept symbolic, as a value
\* that determines its input.
md5_hex(str) == <<"md5_hex", str>>

\* Mutant: the key is good through its expire_time.
is_expired_after(now_, expire_time) == now_ > expire_time

\* if now >= self.expire_time
is_expired(now_, expire_time) == now_ >= expire_time

\* get_timestamp: the system clock's seconds since the epoch, or an error when
\* the system time is before the epoch (duration_since fails).
get_timestamp(clock) == IF clock >= 0 THEN Ok(clock) ELSE from_internal_err

\* Mutant: the salt is joined to the query with a separator.
salted_with_separator(query_str, mixin_key) == query_str \o <<"&">> \o mixin_key

\* query_str.push_str(&self.mixin_key)
salted(query_str, mixin_key) == query_str \o mixin_key

\* Mutant: the clock is read a second time, a second later, for wts.
sign_data_second_read(self, data, ts) ==
  IF ~IsOk(ts) THEN WbiTokenExpired
  ELSE IF is_expired(Unwrap(ts), self.expire_time) THEN WbiTokenExpired
  ELSE LET parsed == from_str(to_string(data)) IN
       IF ~IsOk(parsed) THEN parsed
       ELSE LET v == sort_by_key(Append(Unwrap(parsed),
                                        <<<<"w", "t", "s">>, to_dec(Unwrap(ts) + 1)>>))
                w_rid == md5_hex(salted(to_string(v), self.mixin_key))
            IN Ok(Append(v, <<<<"w", "_", "r", "i", "d">>, w_rid>>))

\* WbiSign::sign_data: self is the key, data the caller's pairs, ts the result
\* of get_timestamp. Ok carries the pairs handed to req.query.
sign_data(self, data, ts) ==
  IF ~IsOk(ts) THEN WbiTokenExpired
  ELSE IF is_expired(Unwrap(ts), self.expire_time) THEN WbiTokenExpired
  ELSE LET parsed == from_str(to_string(data)) IN
       IF ~IsOk(parsed) THEN parsed
       ELSE LET v == sort_by_key(Append(Unwrap(parsed), <<<<"w", "t", "s">>, to_dec(Unwrap(ts))>>))
                w_rid == md5_hex(salted(to_string(v), self.mixin_key))
            IN Ok(Append(v, <<<<"w", "_", "r", "i", "d">>, w_rid>>))

\* ------------------------------------------------------------------- state
VARIABLES
  wbi_key,       \* the WbiSign of the client: {mixin_key, expire_time}
  now,           \* the system clock, in seconds
  signed,        \* the last get_with_wbi call: its data, clock reading and result
  cred,          \* cred[a]: the Credential {cookies, refresh_token}
  cookie_jar,    \* cookie_jar[a]: the store with_credential built for the attempt
  pc,            \* pc[a]: the step of check_and_refresh about to run
  loc,           \* loc[a]: data, cp, refresh_csrf, csrf, new_refresh_token
  result,        \* result[a]: what the last finished call returned (None while running)
  reqs,          \* reqs[a]: the requests the running attempt has sent, in order
  attempt,       \* attempt[a]: number of calls started on Credential a
  srvValid,      \* refresh tokens the server accepts
  srvNext,       \* next refresh token the server issues
  prev,          \* prev[a]: the Credential as it was when the call started
  steps,         \* steps[a]: the steps the running attempt has entered, in order
  exchanged,     \* <<token, a, n>>: attempt n of a got Ok from refresh_cookie(token)
  exchSent,      \* <<token, a, n>>: attempt n of a sent token to the exchange endpoint
  returnedOk,    \* <<a, n>>: attempt n of a refreshed and returned Ok
  atExchange,    \* atExchange[a]: the exchange response and its Set-Cookie, once read
  atConfirm,     \* atConfirm[a]: the confirm response, its Set-Cookie and the store after it
  atCsrfPage,    \* atCsrfPage[a]: the CSRF page response, once read
  guards,        \* guards[s]: read guards held on the lock of cookie store s
  derived,       \* the last WbiSign::from_server call: its inputs and its result
  client,        \* client[b]: what build returned to builder b, and its get_cookies
  qr_login,      \* the QRCodeLogin of the login attempt (None before get_login_info)
  qr_jar,        \* the cookie store of the WbiClient used for the QR login
  polled,        \* the last poll_login_state call: response, store, result
  polls,         \* <<data.code, state>> of the polls that returned a state, in order
  main_pc,       \* the statement of the example's main about to run
  cred_file,     \* cred.json as the example's main left it (None: untouched)
  call           \* the last call of a function: [fn, arg, out]

sign_vars == <<wbi_key, now, signed>>
refresh_vars == <<cred, cookie_jar, pc, loc, result, reqs, attempt, srvValid, srvNext,
                  prev, steps, exchanged, exchSent, returnedOk, atExchange, atConfirm,
                  atCsrfPage, guards>>
derive_vars == <<derived, client>>
qr_vars == <<qr_login, qr_jar, polled, polls, main_pc, cred_file>>
fn_vars == <<call>>
vars == <<refresh_vars, sign_vars, derive_vars, qr_vars, fn_vars>>
\* What a step of the refresh flow, and a step of the signer, leaves alone.
outside_refresh == <<sign_vars, derive_vars, qr_vars, fn_vars>>
outside_sign == <<refresh_vars, derive_vars, qr_vars, fn_vars>>

hist == <<exchanged, exchSent, returnedOk>>
seen == <<atExchange, atConfirm, atCsrfPage>>

\* Cookie stores, by the Arc that holds them: store a is the one
\* with_credential builds for Credential a, store 0 the CookieStore::default()
\* of a builder without a credential. A builder is named by its store.
Stores == {0} \cup Holders

\* The lock of a new store: no guard held, read() called nowhere yet.
NoGuards == [held |-> 0, sites |-> {}]
\* CookieStoreRwLock::read called at `site`: one more read guard unless the
\* lock is poisoned.
read_lock(g, site, lock_ok) ==
  [held |-> IF lock_ok THEN g.held + 1 ELSE g.held, sites |-> g.sites \cup {site}]
\* Mutant: the guard outlives the statement that took it.
drop_guard_leaked(g, lock_ok) == g
\* The guard goes out of scope: at the end of get_bilibili_cookie, of the
\* statement `cookie_jar.read()?.save_json(&mut w)?`, of get_cookies.
drop_guard(g, lock_ok) == IF lock_ok THEN [g EXCEPT !.held = @ - 1] ELSE g
\* The cookie provider's write lock is granted when no read guard is held.
write_granted(g) == g.held = 0

NoLoc == [data |-> None, cp |-> None, refresh_csrf |-> None, csrf |-> None,
          new_refresh_token |-> None]

\* A request as the server sees it.
Req(ep, csrf, refresh_csrf, source, refresh_token) ==
  [ep |-> ep, csrf |-> csrf, refresh_csrf |-> refresh_csrf, source |-> source,
   refresh_token |-> refresh_token]

\* The persisted credential both holders load: token 0, persistent cookies of
\* value 0, with or without a bili_jct cookie.
InitCookies ==
  { [n \in CookieNames |-> Some([value |-> 0, persistent |-> TRUE])],
    [n \in CookieNames |->
       IF n = "SESSDATA" THEN Some([value |-> 0, persistent |-> TRUE]) ELSE None] }

\* Signing keys a client can hold (WbiSign::new) and the clock's values: one
\* before the epoch, the others around the keys' expire times.
MixinKeys == {<<"7", "2">>, <<"d", "z">>}
Clocks == {-1} \cup 9..(9 + MaxTick)
ExpireTimes == 10..(9 + MaxTick)
WbiSigns == [mixin_key : MixinKeys, expire_time : ExpireTimes]

\* Queries a caller signs: up to MaxPairs pairs. One key sorts after wts, one
\* is wts itself, one occurs with two values, and one value needs escaping.
QueryPairs ==
  { << <<"a">>, <<"1">> >>, << <<"a">>, <<>> >>, << <<"x">>, <<"1">> >>,
    << <<"w", "t", "s">>, <<"1">> >>, << <<"a">>, <<"b", "&">> >> }
Queries == UNION {[1..n -> QueryPairs] : n \in 0..MaxPairs}

InitRefresh(cs) ==
  /\ \E c \in cs :
       cred = [a \in Holders |-> [cookies |-> c, refresh_token |-> 0]]
  /\ cookie_jar = [a \in Holders |-> EmptyJar]
  /\ pc = [a \in Holders |-> "Idle"]
  /\ loc = [a \in Holders |-> NoLoc]
  /\ result = [a \in Holders |-> None]
  /\ reqs = [a \in Holders |-> <<>>]
  /\ attempt = [a \in Holders |-> 0]
  /\ srvValid = {0}
  /\ srvNext = 1
  /\ prev = cred
  /\ steps = [a \in Holders |-> <<>>]
  /\ exchanged = {}
  /\ exchSent = {}
  /\ returnedOk = {}
  /\ atExchange = [a \in Holders |-> None]
  /\ atConfirm = [a \in Holders |-> None]
  /\ atCsrfPage = [a \in Holders |-> None]
  /\ guards = [s \in Stores |-> NoGuards]

InitSign(keys) ==
  /\ wbi_key \in keys
  /\ now = 9
  /\ signed = None

\* Nothing derived, no QR login started, no function called yet.
InitRest ==
  /\ derived = None
  /\ client = [b \in Stores |-> None]
  /\ qr_login = None
  /\ qr_jar = EmptyJar
  /\ polled = None
  /\ polls = <<>>
  /\ main_pc = "Build"
  /\ cred_file = None
  /\ call = None

Init ==
  /\ InitRefresh(InitCookies)
  /\ InitSign({[mixin_key |-> <<"7", "2">>, expire_time |-> 10]})
  /\ InitRest

\* ----------------------------------------------------- check_and_refresh
\* Mutant: the local CSRF cookie is not read before the exchange.
NextStep_skip_local_csrf(s) ==
  CASE s = "CheckRequired" -> "DeriveCorrespondPath"
    [] s = "DeriveCorrespondPath" -> "FetchServerCsrf"
    [] s = "FetchServerCsrf" -> "ExchangeToken"
    [] s = "ReadLocalCsrf" -> "ExchangeToken"
    [] s = "ExchangeToken" -> "ConfirmOldToken"
    [] s = "ConfirmOldToken" -> "Persist"
    [] s = "Persist" -> "Done"

\* The step that follows step s when s succeeds.
NextStep(s) ==
  CASE s = "CheckRequired" -> "DeriveCorrespondPath"
    [] s = "DeriveCorrespondPath" -> "FetchServerCsrf"
    [] s = "FetchServerCsrf" -> "ReadLocalCsrf"
    [] s = "ReadLocalCsrf" -> "ExchangeToken"
    [] s = "ExchangeToken" -> "ConfirmOldToken"
    [] s = "ConfirmOldToken" -> "Persist"
    [] s = "Persist" -> "Done"

\* `?`: an Err result ends the call with that error, Ok goes to step `to`.
Goto(a, to) ==
  /\ pc' = [pc EXCEPT ![a] = to]
  /\ steps' = [steps EXCEPT ![a] = Append(@, to)]

\* Mutant: a failed step is run again instead of ending the call.
Return_retry(a, r) ==
  IF IsOk(r)
  THEN Goto(a, "Done") /\ result' = [result EXCEPT ![a] = Some(r)]
  ELSE UNCHANGED <<pc, steps, result>>

Return(a, r) ==
  /\ Goto(a, IF IsOk(r) THEN "Done" ELSE "Failed")
  /\ result' = [result EXCEPT ![a] = Some(r)]

\* with_credential up to its first await: build the store from c.cookies, build
\* the client on it, call check_and_refresh (which binds prev).
with_credential(a) ==
  /\ pc[a] \in {"Idle", "Done", "Failed"}
  /\ UNCHANGED outside_refresh
  /\ attempt[a] < MaxAttempts
  /\ attempt' = [attempt EXCEPT ![a] = @ + 1]
  /\ cookie_jar' = [cookie_jar EXCEPT ![a] = load_json(cred[a].cookies)]
  /\ prev' = [prev EXCEPT ![a] = cred[a]]
  /\ loc' = [loc EXCEPT ![a] = NoLoc]
  /\ result' = [result EXCEPT ![a] = None]
  /\ reqs' = [reqs EXCEPT ![a] = <<>>]
  /\ pc' = [pc EXCEPT ![a] = "CheckRequired"]
  /\ steps' = [steps EXCEPT ![a] = <<"CheckRequired">>]
  /\ atExchange' = [atExchange EXCEPT ![a] = None]
  /\ atConfirm' = [atConfirm EXCEPT ![a] = None]
  /\ atCsrfPage' = [atCsrfPage EXCEPT ![a] = None]
  /\ guards' = [guards EXCEPT ![a] = NoGuards]
  /\ UNCHANGED <<cred, srvValid, srvNext, hist>>

\* Mutant: the early return is never taken.
refresh_required_always(data) == TRUE

\* if !data.refresh { return Ok(()); }
refresh_required(data) == data.refresh

\* let data = check_cookie(client).await?; and the early return
CheckRequired(a) ==
  /\ pc[a] = "CheckRequired"
  /\ write_granted(guards[a])
  /\ UNCHANGED outside_refresh
  /\ \E fault \in Faults, code \in {0} \cup NonZeroCodes,
        refresh \in BOOLEAN, ts \in Timestamps,
        sc \in SetCookieChoices(cred[a].refresh_token) :
       LET resp == Wire(fault, code,
                        IF code = 0 THEN Some([refresh |-> refresh, timestamp |-> ts])
                        ELSE None)
           r == check_cookie(resp)
       IN /\ reqs' = [reqs EXCEPT ![a] = Append(@, Req("check", None, None, None, None))]
          /\ cookie_jar' = [cookie_jar EXCEPT ![a] =
                              IF resp.wire = "send_err" THEN @ ELSE set_cookies(@, sc)]
          /\ IF ~IsOk(r) THEN Return(a, r) /\ UNCHANGED loc
             ELSE /\ loc' = [loc EXCEPT ![a].data = Some(Unwrap(r))]
                  /\ IF ~refresh_required(Unwrap(r)) THEN Return(a, Ok("unit"))
                     ELSE Goto(a, NextStep("CheckRequired")) /\ UNCHANGED result
  /\ UNCHANGED <<cred, attempt, srvValid, srvNext, prev, hist, seen, guards>>

\* let cp = gen_correspond_path(data.timestamp)?;
DeriveCorrespondPath(a) ==
  /\ pc[a] = "DeriveCorrespondPath"
  /\ UNCHANGED outside_refresh
  /\ \E rsa_ok \in BOOLEAN :
       LET r == gen_correspond_path(loc[a].data[1].timestamp, rsa_ok) IN
       IF ~IsOk(r) THEN Return(a, r) /\ UNCHANGED loc
       ELSE /\ loc' = [loc EXCEPT ![a].cp = Some(Unwrap(r))]
            /\ Goto(a, NextStep("DeriveCorrespondPath"))
            /\ UNCHANGED result
  /\ UNCHANGED <<cred, cookie_jar, reqs, attempt, srvValid, srvNext, prev, hist,
                 seen, guards>>

\* let refresh_csrf = get_refresh_csrf(client, &cp).await?;
FetchServerCsrf(a) ==
  /\ pc[a] = "FetchServerCsrf"
  /\ UNCHANGED outside_refresh
  /\ \E page \in Pages :
       LET r == get_refresh_csrf(page) IN
       /\ reqs' = [reqs EXCEPT ![a] = Append(@, Req("csrf_page", None, None, None, None))]
       /\ atCsrfPage' = [atCsrfPage EXCEPT ![a] = Some(page)]
       /\ IF ~IsOk(r) THEN Return(a, r) /\ UNCHANGED loc
          ELSE /\ loc' = [loc EXCEPT ![a].refresh_csrf = Some(Unwrap(r))]
               /\ Goto(a, NextStep("FetchServerCsrf"))
               /\ UNCHANGED result
  /\ UNCHANGED <<cred, cookie_jar, attempt, srvValid, srvNext, prev, hist,
                 atExchange, atConfirm, guards>>

\* let csrf = get_bilibili_cookie(Arc::clone(&cookie_jar), "bili_jct")?;
ReadLocalCsrf(a) ==
  /\ pc[a] = "ReadLocalCsrf"
  /\ UNCHANGED outside_refresh
  /\ \E lock_ok \in BOOLEAN :
       LET r == get_bilibili_cookie(cookie_jar[a], "bili_jct", lock_ok) IN
       /\ guards' = [guards EXCEPT ![a] =
                             drop_guard(read_lock(@, "get_bilibili_cookie", lock_ok), lock_ok)]
       /\ IF ~IsOk(r) THEN Return(a, r) /\ UNCHANGED loc
          ELSE /\ loc' = [loc EXCEPT ![a].csrf = Some(Unwrap(r))]
               /\ Goto(a, NextStep("ReadLocalCsrf"))
               /\ UNCHANGED result
  /\ UNCHANGED <<cred, cookie_jar, reqs, attempt, srvValid, srvNext, prev, hist,
                 seen>>

\* The server's answer to the exchange POST: a valid token is exchanged for the
\* next fresh one (the old one stays valid until it is confirmed).
ServerExchange(tok, accept, rej) ==
  IF accept /\ tok \in srvValid /\ srvNext <= MaxTokens
  THEN [code |-> 0, data |-> Some(srvNext), valid |-> srvValid \cup {srvNext},
        next |-> srvNext + 1]
  ELSE [code |-> rej, data |-> None, valid |-> srvValid, next |-> srvNext]

\* The server's answer to the confirm POST: the old token becomes invalid.
ServerConfirm(tok, accept, rej) ==
  IF accept
  THEN [code |-> 0, valid |-> srvValid \ {tok}]
  ELSE [code |-> rej, valid |-> srvValid]

\* let new_refresh_token =
\*     refresh_cookie(client, &csrf, &refresh_csrf, &prev.refresh_token).await?;
ExchangeForm(a) ==
  Req("exchange", loc[a].csrf, loc[a].refresh_csrf, Some("main_web"),
      Some(cred[a].refresh_token))

\* refresh_cookie: the POST and what comes back.
ExchangeRoundTrip(a) ==
  /\ write_granted(guards[a])
  /\ \E fault \in Faults, accept \in BOOLEAN, rej \in NonZeroCodes :
       LET form == ExchangeForm(a)
           old == form.refresh_token[1]
           srv == IF Served(fault) THEN ServerExchange(old, accept, rej)
                  ELSE [code |-> rej, data |-> None, valid |-> srvValid,
                        next |-> srvNext]
           resp == Wire(fault, srv.code, srv.data)
           r == refresh_cookie(resp)
       IN \E sc \in (IF srv.code = 0 THEN SetCookieChoices(srvNext)
                     ELSE {NoSetCookie}) :
          /\ reqs' = [reqs EXCEPT ![a] = Append(@, form)]
          /\ atExchange' = [atExchange EXCEPT ![a] =
                              IF resp.wire = "send_err" THEN None
                              ELSE Some([resp |-> resp, sc |-> sc])]
          /\ exchSent' = exchSent \cup {<<old, a, attempt[a]>>}
          /\ srvValid' = srv.valid
          /\ srvNext' = srv.next
          /\ cookie_jar' = [cookie_jar EXCEPT ![a] =
                              IF resp.wire = "send_err" THEN @ ELSE set_cookies(@, sc)]
          /\ IF ~IsOk(r)
             THEN Return(a, r) /\ UNCHANGED <<loc, exchanged>>
             ELSE /\ loc' = [loc EXCEPT ![a].new_refresh_token = Some(Unwrap(r))]
                  /\ exchanged' = exchanged \cup {<<old, a, attempt[a]>>}
                  /\ Goto(a, NextStep("ExchangeToken"))
                  /\ UNCHANGED result
  /\ UNCHANGED <<cred, attempt, prev, returnedOk, atConfirm, atCsrfPage, guards>>

\* Mutant: an exchange waits while another attempt is between its exchange and
\* its confirmation.
ExchangeToken_locked(a) ==
  /\ pc[a] = "ExchangeToken"
  /\ UNCHANGED outside_refresh
  /\ \A b \in Holders \ {a} : pc[b] # "ConfirmOldToken"
  /\ ExchangeRoundTrip(a)

ExchangeToken(a) ==
  /\ pc[a] = "ExchangeToken"
  /\ UNCHANGED outside_refresh
  /\ ExchangeRoundTrip(a)

\* confirm_refresh(client, &refresh_csrf, &prev.refresh_token).await?;
\* Mutant: the confirmation carries the newly issued token.
ConfirmForm_new_token(a) ==
  Req("confirm", loc[a].refresh_csrf, None, None, loc[a].new_refresh_token)

ConfirmForm(a) ==
  Req("confirm", loc[a].refresh_csrf, None, None, Some(cred[a].refresh_token))

ConfirmOldToken(a) ==
  /\ pc[a] = "ConfirmOldToken"
  /\ write_granted(guards[a])
  /\ UNCHANGED outside_refresh
  /\ \E fault \in Faults, accept \in BOOLEAN, rej \in NonZeroCodes :
       LET form == ConfirmForm(a)
           old == form.refresh_token[1]
           srv == IF Served(fault) THEN ServerConfirm(old, accept, rej)
                  ELSE [code |-> rej, valid |-> srvValid]
           resp == Wire(fault, srv.code, None)
           r == confirm_refresh(resp)
       IN \E sc \in SetCookieChoices(loc[a].new_refresh_token[1]) :
          LET j == IF resp.wire = "send_err" THEN cookie_jar[a]
                   ELSE set_cookies(cookie_jar[a], sc)
          IN /\ reqs' = [reqs EXCEPT ![a] = Append(@, form)]
             /\ srvValid' = srv.valid
             /\ cookie_jar' = [cookie_jar EXCEPT ![a] = j]
             /\ atConfirm' = [atConfirm EXCEPT ![a] =
                                Some([resp |-> resp,
                                      sc |-> IF resp.wire = "send_err" THEN NoSetCookie
                                             ELSE sc,
                                      jar |-> j])]
             /\ IF ~IsOk(r) THEN Return(a, r)
                ELSE Goto(a, NextStep("ConfirmOldToken")) /\ UNCHANGED result
  /\ UNCHANGED <<cred, loc, attempt, srvNext, prev, hist, atExchange, atCsrfPage, guards>>

\* Save new cookies and refresh token: the store's read lock, save_json,
\* String::from_utf8, then the two assignments to prev (which is self).
\* Mutant: the new token is stored, the cookies are not.
PersistCred_keep_cookies(c, j, tok) == [cookies |-> c.cookies, refresh_token |-> tok]
\* Mutant: the cookies are stored, the new token is not.
PersistCred_keep_token(c, j, tok) ==
  [cookies |-> save_json(j), refresh_token |-> c.refresh_token]

PersistCred(c, j, tok) == [cookies |-> save_json(j), refresh_token |-> tok]

\* Mutant: the new token is assigned before the store is serialized.
Persist_assign_first(a) ==
  /\ pc[a] = "Persist"
  /\ UNCHANGED outside_refresh
  /\ \E lock_ok \in BOOLEAN, save_ok \in BOOLEAN :
       /\ guards' = [guards EXCEPT ![a] =
                           drop_guard(read_lock(@, "check_and_refresh", lock_ok), lock_ok)]
       /\ IF ~lock_ok \/ ~save_ok
          THEN /\ cred' = [cred EXCEPT ![a].refresh_token = loc[a].new_refresh_token[1]]
               /\ Return(a, from_internal_err)
               /\ UNCHANGED returnedOk
          ELSE /\ cred' = [cred EXCEPT ![a] =
                             PersistCred(@, cookie_jar[a], loc[a].new_refresh_token[1])]
               /\ returnedOk' = returnedOk \cup {<<a, attempt[a]>>}
               /\ Return(a, Ok("unit"))
  /\ UNCHANGED <<cookie_jar, loc, reqs, attempt, srvValid, srvNext, prev,
                 exchanged, exchSent, seen>>

Persist(a) ==
  /\ pc[a] = "Persist"
  /\ UNCHANGED outside_refresh
  /\ \E lock_ok \in BOOLEAN, save_ok \in BOOLEAN :
       /\ guards' = [guards EXCEPT ![a] =
                           drop_guard(read_lock(@, "check_and_refresh", lock_ok), lock_ok)]
       /\ IF ~lock_ok \/ ~save_ok
          THEN Return(a, from_internal_err) /\ UNCHANGED <<cred, returnedOk>>
          ELSE /\ cred' = [cred EXCEPT ![a] =
                             PersistCred(@, cookie_jar[a], loc[a].new_refresh_token[1])]
               /\ returnedOk' = returnedOk \cup {<<a, attempt[a]>>}
               /\ Return(a, Ok("unit"))
  /\ UNCHANGED <<cookie_jar, loc, reqs, attempt, srvValid, srvNext, prev,
                 exchanged, exchSent, seen>>

check_and_refresh(a) ==
  \/ CheckRequired(a)
  \/ DeriveCorrespondPath(a)
  \/ FetchServerCsrf(a)
  \/ ReadLocalCsrf(a)
  \/ ExchangeToken(a)
  \/ ConfirmOldToken(a)
  \/ Persist(a)

\* Attempts run one at a time on one Credential.
Next ==
  \/ with_credential(1)
  \/ check_and_refresh(1)

Spec == Init /\ [][Next]_vars

\* Two Credentials loaded from the same file, each refreshed once, concurrently.
NextRace ==
  \E a \in Holders :
    \/ attempt[a] = 0 /\ with_credential(a)
    \/ check_and_refresh(a)

SpecRace == Init /\ [][NextRace]_vars

\* ----------------------------------------------------------- wbi signing
\* WbiClient::get_with_wbi: sign the query with the client's key at the
\* clock's current reading (which can fail).
get_with_wbi ==
  /\ \E data \in Queries :
       LET ts == get_timestamp(now) IN
       signed' = Some([data |-> data, ts |-> ts, key |-> wbi_key,
                       out |-> sign_data(wbi_key, data, ts)])
  /\ UNCHANGED <<wbi_key, now, outside_sign>>

\* The system clock moves (SystemTime is not monotonic).
ClockMoves ==
  /\ \E t \in Clocks \ {now} : now' = t
  /\ UNCHANGED <<wbi_key, signed, outside_sign>>

NextSign ==
  \/ get_with_wbi
  \/ ClockMoves

InitSigner ==
  /\ InitRefresh({CHOOSE c \in InitCookies : c["bili_jct"] # None})
  /\ InitSign(WbiSigns)
  /\ InitRest

SpecSign == InitSigner /\ [][NextSign]_vars

\* The same client under a clock that never goes back.
ClockAdvances ==
  /\ \E t \in Clocks : t > now /\ now' = t
  /\ UNCHANGED <<wbi_key, signed, outside_sign>>

NextSignMono ==
  \/ get_with_wbi
  \/ ClockAdvances

InitSignerMono ==
  /\ InitRefresh({CHOOSE c \in InitCookies : c["bili_jct"] # None})
  /\ wbi_key \in WbiSigns
  /\ now \in Clocks
  /\ signed = None
  /\ InitRest

SpecSignMono == InitSignerMono /\ [][NextSignMono]_vars

\* ------------------------------------------------------ wbi key derivation
\* The character '\0' the key buffer is filled with.
NUL == "NUL"

MIXIN_KEY_ENC_TAB ==
  <<46, 47, 18, 2, 53, 8, 23, 32, 15, 50, 10, 31, 58, 3, 45, 35, 27, 43, 5, 49, 33, 9, 42,
    19, 29, 28, 14, 39, 12, 38, 41, 13, 37, 48, 7, 16, 24, 55, 40, 61, 26, 17, 0, 1, 60,
    51, 30, 4, 22, 25, 54, 21, 56, 59, 6, 63, 57, 62, 11, 36, 20, 34, 44, 52>>

\* Mutant: a last segment without '.' is no key (None).
url_to_key_needs_dot(url) ==
  LET slashes == {i \in 1..Len(url) : url[i] = "/"}
      from == IF slashes = {} THEN 1
              ELSE (CHOOSE i \in slashes : \A j \in slashes : j <= i) + 1
      tmp == SubSeq(url, from, Len(url))
      dots == {i \in 1..Len(tmp) : tmp[i] = "."}
  IN IF dots = {} THEN None
     ELSE Some(SubSeq(tmp, 1, (CHOOSE i \in dots : \A j \in dots : i <= j) - 1))

\* url_to_key: url.split('/').last(), then .split('.').nth(0) of it. A split
\* yields at least one item, so both are Some: what follows the last '/' (all
\* of url without one), up to its first '.' (all of it without one).
url_to_key(url) ==
  LET slashes == {i \in 1..Len(url) : url[i] = "/"}
      from == IF slashes = {} THEN 1
              ELSE (CHOOSE i \in slashes : \A j \in slashes : j <= i) + 1
      tmp == SubSeq(url, from, Len(url))
      dots == {i \in 1..Len(tmp) : tmp[i] = "."}
      to == IF dots = {} THEN Len(tmp)
            ELSE (CHOOSE i \in dots : \A j \in dots : i <= j) - 1
  IN Some(SubSeq(tmp, 1, to))

\* Mutant: the table is read as a gather, v[i] = source[table[i]].
RECURSIVE rearrange_gather(_, _, _)
rearrange_gather(v, chars, i) ==
  IF i > Len(chars) \/ i > Len(MIXIN_KEY_ENC_TAB) THEN v
  ELSE rearrange_gather(
         [v EXCEPT ![i] = IF MIXIN_KEY_ENC_TAB[i] + 1 <= Len(chars)
                          THEN chars[MIXIN_KEY_ENC_TAB[i] + 1] ELSE NUL],
         chars, i + 1)

\* for (c, &idx) in mixin_key.chars().zip(MIXIN_KEY_ENC_TAB.iter()) { v[idx] = c; }
\* from pair i on (indices of v are 0-based in the code, 1-based here).
RECURSIVE rearrange(_, _, _)
rearrange(v, chars, i) ==
  IF i > Len(chars) \/ i > Len(MIXIN_KEY_ENC_TAB) THEN v
  ELSE rearrange([v EXCEPT ![MIXIN_KEY_ENC_TAB[i] + 1] = chars[i]], chars, i + 1)

\* let mut v = ['\0'; 64]; the loop; String::from_iter(v.iter())
mixin_key_of(img_key, sub_key) ==
  rearrange([j \in 1..64 |-> NUL], img_key \o sub_key, 1)

HOUR == 3600
\* Seconds of one day, as chrono counts them.
DAY == 86400
\* NaiveDate::MAX as days since 1970-01-01; checked_add_days is None past it.
DateMax == 95026236

\* get_next_day at the instant utc (Utc::now(), in seconds): the date of utc in
\* UTC+8 as days since 1970-01-01, one day added, at 00:00:00, and_utc(), timestamp().
get_next_day(utc) ==
  LET china == utc + 8 * HOUR
      date == china \div DAY
      next_day == date + 1
      ts == next_day * DAY
  IN IF next_day > DateMax THEN from_internal_err
     ELSE IF ts < 0 THEN from_internal_err
     ELSE Ok(ts)

\* WbiSign::from_server, from the response on; utc is the instant of get_next_day.
from_server(resp, utc) ==
  IF resp.wire = "send_err" THEN from_net_err
  ELSE IF resp.wire = "bad_json" THEN from_json_err
  ELSE IF resp.data = None THEN from_json_err
  ELSE LET wbi_img == resp.data[1].wbi_img
           img_key == url_to_key(wbi_img.img_url)
           sub_key == url_to_key(wbi_img.sub_url)
       IN IF img_key = None \/ sub_key = None THEN from_json_err
          ELSE LET expired == get_next_day(utc) IN
               IF ~IsOk(expired) THEN expired
               ELSE Ok([mixin_key |-> mixin_key_of(img_key[1], sub_key[1]),
                        expire_time |-> Unwrap(expired)])

\* The keys the nav endpoint hands out: 32 characters each (two of hex digits,
\* two that have 64 different characters between them), and two short ones.
ImgKeyHex ==
  <<"7", "c", "d", "0", "8", "4", "9", "4", "1", "3", "3", "8", "4", "8", "4", "a",
    "a", "e", "1", "a", "d", "9", "4", "2", "5", "b", "8", "4", "0", "7", "7", "c">>
SubKeyHex ==
  <<"4", "9", "3", "2", "c", "a", "f", "f", "0", "f", "f", "7", "4", "6", "e", "a",
    "b", "6", "f", "0", "1", "b", "f", "0", "8", "b", "7", "0", "a", "c", "4", "5">>
ImgKeyDistinct ==
  <<"0", "1", "2", "3", "4", "5", "6", "7", "8", "9", "a", "b", "c", "d", "e", "f",
    "g", "h", "i", "j", "k", "l", "m", "n", "o", "p", "q", "r", "s", "t", "u", "v">>
SubKeyDistinct ==
  <<"w", "x", "y", "z", "A", "B", "C", "D", "E", "F", "G", "H", "I", "J", "K", "L",
    "M", "N", "O", "P", "Q", "R", "S", "T", "U", "V", "W", "X", "Y", "Z", "-", "_">>
WbiKeys == {ImgKeyHex, SubKeyHex, ImgKeyDistinct, SubKeyDistinct, <<"a", "b">>, <<>>}
\* https://i0.hdslb.com/bfs/wbi/<key>.png
UrlOf(key) ==
  <<"h", "t", "t", "p", "s", ":", "/", "/", "i", "0", ".", "h", "d", "s", "l", "b",
    ".", "c", "o", "m", "/", "b", "f", "s", "/", "w", "b", "i", "/">>
    \o key \o <<".", "p", "n", "g">>
\* The (img_url, sub_url) of a nav response: two keys of 32 characters in
\* either order, a key twice, a short or an empty fragment; and strings that
\* are no such url: empty, without '/' and '.', ending in '/', a last segment
\* that starts with '.'.
WbiUrlPairs ==
  {<<UrlOf(p[1]), UrlOf(p[2])>> :
     p \in {<<ImgKeyHex, SubKeyHex>>, <<ImgKeyDistinct, SubKeyDistinct>>,
            <<SubKeyDistinct, ImgKeyDistinct>>, <<ImgKeyHex, ImgKeyHex>>,
            <<<<"a", "b">>, SubKeyHex>>, <<<<>>, <<>>>>}}
  \cup {<< <<>>, <<"a", "b", "c">> >>, << <<"x", "/">>, <<"/", ".", "p">> >>}

\* Instants of derivation: around midnight UTC and midnight UTC+8 (16:00 UTC) of
\* the days 0..MaxDay, the instant of the source's test, and one before 1969.
DaySeconds == {0, 1, 8 * HOUR, 16 * HOUR - 1, 16 * HOUR, 16 * HOUR + 1, DAY - 1}
Instants ==
  {d * DAY + s : d \in 0..MaxDay, s \in DaySeconds} \cup {1684746387, 0 - 115201}

\* WbiClientBuilder::build without a key: WbiSign::from_server on the client.
FromServer ==
  /\ derived = None
  /\ \E fault \in Faults, code \in {0, -101}, urls \in WbiUrlPairs, utc \in Instants :
       LET resp == Wire(fault, code,
                        Some([wbi_img |-> [img_url |-> urls[1], sub_url |-> urls[2]]]))
       IN derived' = Some([resp |-> resp, utc |-> utc, out |-> from_server(resp, utc)])
  /\ UNCHANGED <<client, refresh_vars, sign_vars, qr_vars, fn_vars>>

NextDerive == FromServer

SpecDerive == Init /\ [][NextDerive]_vars

\* ---------------------------------------------------------------- QR login
\* QRCodeLoginState
Success(c) == [state |-> "Success", cred |-> Some(c)]
QRCodeExpired == [state |-> "QRCodeExpired", cred |-> None]
WaitConfirm == [state |-> "WaitConfirm", cred |-> None]
WaitScan == [state |-> "WaitScan", cred |-> None]

\* QRCodeLogin::get_login_info, from the response on.
get_login_info(resp) ==
  LET obj == do_request(resp) IN
  IF ~IsOk(obj) THEN obj
  ELSE IF Unwrap(obj).data = None THEN from_json_err
  ELSE Ok(Unwrap(obj).data[1])

\* WbiClient::get_cookies: the store's read lock, save_json, String::from_utf8.
get_cookies(j, lock_ok, save_ok) ==
  IF ~lock_ok THEN from_internal_err
  ELSE IF ~save_ok THEN from_internal_err
  ELSE Ok(save_json(j))

\* Mutant: a status code the match does not know is taken as "not scanned yet".
poll_login_state_default(resp, cookies) ==
  LET obj == do_request(resp) IN
  IF ~IsOk(obj) THEN obj
  ELSE IF Unwrap(obj).data = None THEN from_json_err
  ELSE LET poll == Unwrap(obj).data[1] IN
       CASE poll.code = 0 ->
              IF ~IsOk(cookies) THEN cookies
              ELSE Ok(Success([cookies |-> Unwrap(cookies),
                               refresh_token |-> poll.refresh_token]))
         [] poll.code = 86038 -> Ok(QRCodeExpired)
         [] poll.code = 86090 -> Ok(WaitConfirm)
         [] OTHER -> Ok(WaitScan)

\* QRCodeLogin::poll_login_state, from the response on; cookies is what
\* wbi_client.get_cookies() returns when the arm of code 0 calls it.
poll_login_state(resp, cookies) ==
  LET obj == do_request(resp) IN
  IF ~IsOk(obj) THEN obj
  ELSE IF Unwrap(obj).data = None THEN from_json_err
  ELSE LET poll == Unwrap(obj).data[1] IN
       CASE poll.code = 0 ->
              IF ~IsOk(cookies) THEN cookies
              ELSE Ok(Success([cookies |-> Unwrap(cookies),
                               refresh_token |-> poll.refresh_token]))
         [] poll.code = 86038 -> Ok(QRCodeExpired)
         [] poll.code = 86090 -> Ok(WaitConfirm)
         [] poll.code = 86101 -> Ok(WaitScan)
         [] OTHER -> from_json_err

\* data.code of a poll response: the four known codes, a neighbour of one, a
\* negative one.
PollCodes == {0, 86038, 86090, 86101, 86039, -1}
\* refresh_token of a poll response.
PollTokens == {"tok123", "tok456"}
\* What one poll can meet: a response (with the Set-Cookie it carries: the
\* login cookies come with code 0) and whether the store can be read and saved.
PollEvents ==
  {[resp |-> Wire(f, 0, None), sc |-> NoSetCookie, lock_ok |-> TRUE, save_ok |-> TRUE] :
     f \in {"lost_response", "bad_json"}}
  \cup {[resp |-> Wire("no_data", c, None), sc |-> NoSetCookie, lock_ok |-> TRUE,
         save_ok |-> TRUE] : c \in {0, -412}}
  \cup {[resp |-> Wire("none", c, Some([code |-> pcode, refresh_token |-> tok])),
         sc |-> NoSetCookie, lock_ok |-> TRUE, save_ok |-> TRUE] :
          c \in {0, -412}, pcode \in PollCodes \ {0}, tok \in {"tok123"}}
  \cup UNION {{[resp |-> Wire("none", c, Some([code |-> 0, refresh_token |-> tok])),
                sc |-> sc, lock_ok |-> ok[1], save_ok |-> ok[2]] :
                 c \in {0, -412}, sc \in SetCookieChoices(tok),
                 ok \in {<<TRUE, TRUE>>, <<TRUE, FALSE>>, <<FALSE, TRUE>>}} :
              tok \in PollTokens}

\* let info = QRCodeLogin::get_login_info(&client).await: the caller has a
\* QRCodeLogin when it returned Ok. (The issuance response sets no cookie.)
GetLoginInfo ==
  /\ qr_login = None
  /\ \E fault \in Faults, code \in {0, -412} :
       LET resp == Wire(fault, code, Some([url |-> "url", qrcode_key |-> "key"]))
           r == get_login_info(resp)
       IN qr_login' = IF IsOk(r) THEN Some(Unwrap(r)) ELSE None
  /\ UNCHANGED <<qr_jar, polled, polls, main_pc, cred_file>>
  /\ UNCHANGED <<refresh_vars, sign_vars, derive_vars, fn_vars>>

\* Mutant: the snapshot is of the store as it was before the response.
PollLoginState_stale_snapshot ==
  /\ qr_login # None
  /\ \E e \in PollEvents :
       LET j == IF e.resp.wire = "send_err" THEN qr_jar ELSE set_cookies(qr_jar, e.sc)
           out == poll_login_state(e.resp, get_cookies(qr_jar, e.lock_ok, e.save_ok))
       IN /\ IsOk(out) => Len(polls) < MaxPolls
          /\ qr_jar' = j
          /\ polled' = Some([resp |-> e.resp, jar |-> j, lock_ok |-> e.lock_ok,
                             save_ok |-> e.save_ok, out |-> out])
          /\ polls' = IF IsOk(out)
                      THEN Append(polls, <<e.resp.data[1].code, Unwrap(out).state>>)
                      ELSE polls
  /\ UNCHANGED <<qr_login, main_pc, cred_file>>
  /\ UNCHANGED <<refresh_vars, sign_vars, derive_vars, fn_vars>>

\* info.poll_login_state(&client).await: the client's cookie provider stores
\* the response's cookies before the body is read, the arm of code 0 takes the
\* snapshot after that.
PollLoginState ==
  /\ qr_login # None
  /\ \E e \in PollEvents :
       LET j == IF e.resp.wire = "send_err" THEN qr_jar ELSE set_cookies(qr_jar, e.sc)
           out == poll_login_state(e.resp, get_cookies(j, e.lock_ok, e.save_ok))
       IN /\ IsOk(out) => Len(polls) < MaxPolls
          /\ qr_jar' = j
          /\ polled' = Some([resp |-> e.resp, jar |-> j, lock_ok |-> e.lock_ok,
                             save_ok |-> e.save_ok, out |-> out])
          /\ polls' = IF IsOk(out)
                      THEN Append(polls, <<e.resp.data[1].code, Unwrap(out).state>>)
                      ELSE polls
  /\ UNCHANGED <<qr_login, main_pc, cred_file>>
  /\ UNCHANGED <<refresh_vars, sign_vars, derive_vars, fn_vars>>

NextQr ==
  \/ GetLoginInfo
  \/ PollLoginState

SpecQr == Init /\ [][NextQr]_vars

\* ------------------------------------------------- WbiClientBuilder::build
\* with_credential after check_and_refresh returned r: `?` hands an error to
\* the caller and the builder (moved into the call) is gone; otherwise
\* tmp.cookies = Some(cookie_jar), the store the refresh ran against.
builder_after(r, a) ==
  IF IsOk(r) THEN Ok([cookies |-> Some(a)]) ELSE r

\* WbiClient::builder(): cookies: None.
builder_new == Ok([cookies |-> None])

\* Mutant: build always makes a store of its own.
cookie_provider_fresh(cookies) == 0

\* match self.cookies { Some(c) => c, None => Arc::new(CookieStore::default()) }
cookie_provider(cookies) == IF cookies # None THEN cookies[1] ELSE 0

\* What WbiSign::from_server hands to build: a key or one of its errors.
FromServerResults ==
  {Ok("key"), from_net_err, from_json_err, from_bilibili_err(-101), from_internal_err}

\* build: the reqwest client on the cookie provider, then the key.
build(cookies, client_ok, wbi) ==
  IF ~client_ok THEN from_internal_err
  ELSE IF ~IsOk(wbi) THEN wbi
  ELSE Ok([cookies |-> cookie_provider(cookies), wbi_key |-> Unwrap(wbi)])

\* The store behind Arc s as build finds it: store 0 is made by build itself.
StoreAtBuild(s) == IF s = 0 THEN EmptyJar ELSE cookie_jar[s]
\* The store behind Arc s.
StoreOf(s) == IF s = 0 THEN qr_jar ELSE cookie_jar[s]

\* WbiClient::builder()[.with_credential(&mut c).await?].build().await for
\* builder o: the nav request of from_server goes through the new client, so
\* its response's cookies (of value 7, no token's value) land in the client's
\* store.
Build(o) ==
  /\ client[o] = None
  /\ o \in Holders => pc[o] \in {"Done", "Failed"}
  /\ LET b == IF o \in Holders THEN builder_after(result[o][1], o) ELSE builder_new IN
     IF ~IsOk(b)
     THEN /\ client' = [client EXCEPT ![o] = Some([built |-> b, jar |-> EmptyJar,
                                                     snapshot |-> None])]
          /\ UNCHANGED <<cookie_jar, qr_jar>>
     ELSE \E client_ok \in BOOLEAN, wbi \in FromServerResults,
             sc \in SetCookieChoices(7) :
            LET s == cookie_provider(Unwrap(b).cookies)
                nav == IF client_ok /\ wbi # from_net_err THEN sc ELSE NoSetCookie
                j == set_cookies(StoreAtBuild(s), nav)
            IN /\ client_ok => write_granted(guards[s])
               /\ client' = [client EXCEPT ![o] =
                               Some([built |-> build(Unwrap(b).cookies, client_ok, wbi),
                                     jar |-> StoreAtBuild(s), snapshot |-> None])]
               /\ IF s = 0 THEN qr_jar' = j /\ UNCHANGED cookie_jar
                  ELSE cookie_jar' = [cookie_jar EXCEPT ![s] = j] /\ UNCHANGED qr_jar
  /\ UNCHANGED <<derived, sign_vars, fn_vars, qr_login, polled, polls, main_pc, cred_file>>
  /\ UNCHANGED <<cred, pc, loc, result, reqs, attempt, srvValid, srvNext, prev, steps,
                 hist, seen, guards>>

\* client.get_cookies() on the client builder o got.
ClientGetCookies(o) ==
  /\ client[o] # None
  /\ IsOk(client[o][1].built)
  /\ client[o][1].snapshot = None
  /\ LET s == Unwrap(client[o][1].built).cookies IN
     \E lock_ok \in BOOLEAN, save_ok \in BOOLEAN :
       /\ client' = [client EXCEPT ![o][1].snapshot =
                       Some(get_cookies(StoreOf(s), lock_ok, save_ok))]
       /\ guards' = [guards EXCEPT ![s] =
                       drop_guard(read_lock(@, "get_cookies", lock_ok), lock_ok)]
  /\ UNCHANGED <<derived, sign_vars, qr_vars, fn_vars>>
  /\ UNCHANGED <<cred, cookie_jar, pc, loc, result, reqs, attempt, srvValid, srvNext,
                 prev, steps, hist, seen>>

\* One Credential refreshed once by with_credential, a builder with it and a
\* builder without it, and the clients' snapshots.
NextClient ==
  \/ attempt[1] = 0 /\ with_credential(1)
  \/ check_and_refresh(1)
  \/ \E o \in {0, 1} : Build(o)
  \/ \E o \in {0, 1} : ClientGetCookies(o)

SpecClient == Init /\ [][NextClient]_vars

\* ------------------------------------------------- persisted credential
\* Characters of the strings of a Credential: a letter, the quote, the
\* backslash, a line feed and U+0001 (control characters), two characters of
\* JSON's own syntax, and one outside ASCII.
QUOTE == "\""
BACKSLASH == "\\"
SOH == "U+0001"
JsonChars == {"a", QUOTE, BACKSLASH, "\n", SOH, "}", ",", "U+00E9"}
IsControl(c) == c \in {"\n", "\t", "\r", SOH}
Chars_cookies == <<"c", "o", "o", "k", "i", "e", "s">>
Chars_refresh_token ==
  <<"r", "e", "f", "r", "e", "s", "h", "_", "t", "o", "k", "e", "n">>

\* Mutant: the quote is written as it is.
json_escape_char_raw_quote(c) ==
  CASE c = BACKSLASH -> <<BACKSLASH, BACKSLASH>>
    [] c = "\n" -> <<BACKSLASH, "n">>
    [] c = "\t" -> <<BACKSLASH, "t">>
    [] c = "\r" -> <<BACKSLASH, "r">>
    [] c = SOH -> <<BACKSLASH, "u", "0", "0", "0", "1">>
    [] OTHER -> <<c>>

\* serde_json's string escaping: the quote, the backslash and the control
\* characters are escaped, every other character is written as it is.
json_escape_char(c) ==
  CASE c = QUOTE -> <<BACKSLASH, QUOTE>>
    [] c = BACKSLASH -> <<BACKSLASH, BACKSLASH>>
    [] c = "\n" -> <<BACKSLASH, "n">>
    [] c = "\t" -> <<BACKSLASH, "t">>
    [] c = "\r" -> <<BACKSLASH, "r">>
    [] c = SOH -> <<BACKSLASH, "u", "0", "0", "0", "1">>
    [] OTHER -> <<c>>
RECURSIVE json_escape(_)
json_escape(str) ==
  IF str = <<>> THEN <<>> ELSE json_escape_char(Head(str)) \o json_escape(Tail(str))
json_string(str) == <<QUOTE>> \o json_escape(str) \o <<QUOTE>>

\* serde_json::to_writer(w, self) for the derived Serialize of Credential: the
\* fields in declaration order, compact.
to_writer(c) ==
  <<"{">> \o json_string(Chars_cookies) \o <<":">> \o json_string(c.cookies)
    \o <<",">> \o json_string(Chars_refresh_token) \o <<":">>
    \o json_string(c.refresh_token) \o <<"}">>

\* Credential::save_json: w_ok is whether the writer took the bytes.
Credential_save_json(c, w_ok) ==
  IF w_ok THEN Ok(to_writer(c)) ELSE from_internal_err

\* The character of a \uXXXX escape.
HexDigits ==
  <<"0", "1", "2", "3", "4", "5", "6", "7", "8", "9", "a", "b", "c", "d", "e", "f">>
IsHex(c) == \E i \in 1..16 : HexDigits[i] = c
HexVal(c) == (CHOOSE i \in 1..16 : HexDigits[i] = c) - 1
char_of_code(n) ==
  CASE n = 1 -> SOH
    [] n = 9 -> "\t"
    [] n = 10 -> "\n"
    [] n = 13 -> "\r"
    [] n = 34 -> QUOTE
    [] n = 44 -> ","
    [] n = 92 -> BACKSLASH
    [] n = 97 -> "a"
    [] n = 125 -> "}"
    [] n = 233 -> "U+00E9"
    [] OTHER -> "U+other"

Parsed(val, next) == [ok |-> TRUE, val |-> val, next |-> next]
NotParsed == [ok |-> FALSE, val |-> <<>>, next |-> 0]

\* serde_json's parse of a string from the character after its opening quote:
\* up to the closing quote, escapes decoded, a raw control character refused.
RECURSIVE parse_str(_, _, _)
parse_str(s, i, acc) ==
  IF i > Len(s) THEN NotParsed
  ELSE IF s[i] = QUOTE THEN Parsed(acc, i + 1)
  ELSE IF s[i] = BACKSLASH THEN
    IF i + 1 > Len(s) THEN NotParsed
    ELSE CASE s[i + 1] \in {QUOTE, BACKSLASH, "/"} ->
                parse_str(s, i + 2, Append(acc, s[i + 1]))
           [] s[i + 1] = "n" -> parse_str(s, i + 2, Append(acc, "\n"))
           [] s[i + 1] = "t" -> parse_str(s, i + 2, Append(acc, "\t"))
           [] s[i + 1] = "r" -> parse_str(s, i + 2, Append(acc, "\r"))
           [] s[i + 1] = "u" ->
                IF i + 5 <= Len(s) /\ \A k \in 2..5 : IsHex(s[i + k])
                THEN parse_str(s, i + 6,
                       Append(acc, char_of_code(HexVal(s[i + 2]) * 4096
                                                + HexVal(s[i + 3]) * 256
                                                + HexVal(s[i + 4]) * 16
                                                + HexVal(s[i + 5]))))
                ELSE NotParsed
           [] OTHER -> NotParsed
  ELSE IF IsControl(s[i]) THEN NotParsed
  ELSE parse_str(s, i + 1, Append(acc, s[i]))

\* The position of the first character from i on that is not whitespace.
RECURSIVE skip_ws(_, _)
skip_ws(s, i) ==
  IF i <= Len(s) /\ s[i] \in {" ", "\n", "\t", "\r"} THEN skip_ws(s, i + 1) ELSE i

\* The derived Deserialize of Credential on a JSON object, from position i on:
\* members name : string, a name met twice or a missing name is an error, other
\* names are passed over, nothing but whitespace may follow the object.
\* fields holds the values read so far. (Of the values only strings are read:
\* save_json writes no other.)
RECURSIVE visit_member(_, _, _)
RECURSIVE visit_rest(_, _, _)
visit_member(s, i, fields) ==
  IF i > Len(s) \/ s[i] # QUOTE THEN from_internal_err
  ELSE LET key == parse_str(s, i + 1, <<>>) IN
       IF ~key.ok THEN from_internal_err
       ELSE LET colon == skip_ws(s, key.next) IN
            IF colon > Len(s) \/ s[colon] # ":" THEN from_internal_err
            ELSE LET v == skip_ws(s, colon + 1) IN
                 IF v > Len(s) \/ s[v] # QUOTE THEN from_internal_err
                 ELSE LET val == parse_str(s, v + 1, <<>>) IN
                      IF ~val.ok THEN from_internal_err
                      ELSE IF key.val = Chars_cookies
                      THEN IF fields.cookies # None THEN from_internal_err
                           ELSE visit_rest(s, val.next,
                                           [fields EXCEPT !.cookies = Some(val.val)])
                      ELSE IF key.val = Chars_refresh_token
                      THEN IF fields.refresh_token # None THEN from_internal_err
                           ELSE visit_rest(s, val.next,
                                           [fields EXCEPT !.refresh_token = Some(val.val)])
                      ELSE visit_rest(s, val.next, fields)
visit_rest(s, i, fields) ==
  LET j == skip_ws(s, i) IN
  IF j > Len(s) THEN from_internal_err
  ELSE IF s[j] = "," THEN visit_member(s, skip_ws(s, j + 1), fields)
  ELSE IF s[j] = "}" THEN
    IF fields.cookies = None \/ fields.refresh_token = None THEN from_internal_err
    ELSE IF skip_ws(s, j + 1) <= Len(s) THEN from_internal_err
    ELSE Ok([cookies |-> fields.cookies[1], refresh_token |-> fields.refresh_token[1]])
  ELSE from_internal_err

\* serde_json::from_reader(r) into a Credential.
from_reader(s) ==
  LET open == skip_ws(s, 1)
      none == [cookies |-> None, refresh_token |-> None]
  IN IF open > Len(s) \/ s[open] # "{" THEN from_internal_err
     ELSE LET j == skip_ws(s, open + 1) IN
          IF j <= Len(s) /\ s[j] = "}" THEN visit_rest(s, j, none)
          ELSE visit_member(s, j, none)

\* Credential::load_json
Credential_load_json(r) == from_reader(r)

\* The Credentials that are saved: any cookies string of up to MaxStrLen
\* characters, and a refresh_token that is empty, plain, or made of characters
\* that need escaping.
CredStrings == UNION {[1..n -> JsonChars] : n \in 0..MaxStrLen}
CredTokens == {<<>>, <<"a">>, <<QUOTE, ",">>, <<BACKSLASH>>}
Credentials == [cookies : CredStrings, refresh_token : CredTokens]

\* c.save_json(&mut writer)
SaveJson ==
  /\ call # None
  /\ call[1].fn = "json"
  /\ call[1].file = None
  /\ \E w_ok \in BOOLEAN :
       call' = Some([call[1] EXCEPT !.file = Some(Credential_save_json(call[1].arg, w_ok))])
  /\ UNCHANGED <<refresh_vars, sign_vars, derive_vars, qr_vars>>

\* Credential::load_json(reader) on the bytes save_json wrote.
LoadJson ==
  /\ call # None
  /\ call[1].fn = "json"
  /\ call[1].file # None
  /\ IsOk(call[1].file[1])
  /\ call[1].out = None
  /\ call' = Some([call[1] EXCEPT !.out = Some(Credential_load_json(Unwrap(call[1].file[1])))])
  /\ UNCHANGED <<refresh_vars, sign_vars, derive_vars, qr_vars>>

NextJson ==
  \/ SaveJson
  \/ LoadJson

\* The state before a function is called on one of args.
InitCall(calls) ==
  /\ InitRefresh({CHOOSE c \in InitCookies : c["bili_jct"] # None})
  /\ InitSign({[mixin_key |-> <<"7", "2">>, expire_time |-> 10]})
  /\ derived = None
  /\ client = [b \in Stores |-> None]
  /\ qr_login = None
  /\ qr_jar = EmptyJar
  /\ polled = None
  /\ polls = <<>>
  /\ main_pc = "Build"
  /\ cred_file = None
  /\ call \in {Some(c) : c \in calls}

InitJson ==
  InitCall({[fn |-> "json", arg |-> c, file |-> None, out |-> None] : c \in Credentials})

SpecJson == InitJson /\ [][NextJson]_vars

\* ---------------------------------------------------------------- hex_digest
ENC_TAB ==
  <<"0", "1", "2", "3", "4", "5", "6", "7", "8", "9", "a", "b", "c", "d", "e", "f">>

\* Mutant: the low nibble is written first.
RECURSIVE hex_digest_low_first(_)
hex_digest_low_first(v) ==
  IF v = <<>> THEN <<>>
  ELSE LET high == Head(v) \div 16
           low == Head(v) % 16
       IN <<ENC_TAB[low + 1], ENC_TAB[high + 1]>> \o hex_digest_low_first(Tail(v))

\* hex_digest: v.iter().flat_map(|x| [ENC_TAB[x >> 4], ENC_TAB[x & 0xF]]).collect()
RECURSIVE hex_digest(_)
hex_digest(v) ==
  IF v = <<>> THEN <<>>
  ELSE LET high == Head(v) \div 16
           low == Head(v) % 16
       IN <<ENC_TAB[high + 1], ENC_TAB[low + 1]>> \o hex_digest(Tail(v))

\* The vectors encoded: every single byte, and the vectors of up to MaxBytes
\* bytes with nibbles 0, 9, a, f in either place.
EdgeBytes == {0, 9, 10, 15, 16, 171, 240, 255}
ByteVecs == {<<b>> : b \in 0..255} \cup UNION {[1..n -> EdgeBytes] : n \in 0..MaxBytes}

\* let ans = hex_digest(&v);
HexDigest ==
  /\ call # None
  /\ call[1].fn = "hex"
  /\ call[1].out = None
  /\ call' = Some([call[1] EXCEPT !.out = Some(hex_digest(call[1].arg))])
  /\ UNCHANGED <<refresh_vars, sign_vars, derive_vars, qr_vars>>

NextHex == HexDigest

InitHex == InitCall({[fn |-> "hex", arg |-> v, out |-> None] : v \in ByteVecs})

SpecHex == InitHex /\ [][NextHex]_vars

\* ------------------------------------------------------ response envelope
\* The operations that read a BCommonJson envelope, and the data each expects.
EnvelopeOps == {"check_cookie", "refresh_cookie", "confirm_refresh", "get_login_info",
                "poll_login_state"}
DataOf(op) ==
  CASE op = "check_cookie" -> {[refresh |-> TRUE, timestamp |-> 1684746387]}
    [] op = "refresh_cookie" -> {1}
    [] op = "confirm_refresh" -> {"unit"}
    [] op = "get_login_info" -> {[url |-> "url", qrcode_key |-> "key"]}
    [] op = "poll_login_state" ->
         {[code |-> c, refresh_token |-> "tok123"] : c \in {0, 86101, 86038}}
\* The responses an operation can read: lost, no envelope, or an envelope with
\* code zero or not, with data or without.
EnvelopesOf(op) ==
  {Wire(f, 0, None) : f \in {"lost_response", "bad_json"}}
  \cup {Wire("none", c, d) :
          c \in {0, -412} \cup NonZeroCodes, d \in {None} \cup {Some(x) : x \in DataOf(op)}}

CheckCookie ==
  /\ call # None
  /\ call[1].fn = "check_cookie"
  /\ call[1].out = None
  /\ call' = Some([call[1] EXCEPT !.out = Some(check_cookie(call[1].arg))])
  /\ UNCHANGED <<refresh_vars, sign_vars, derive_vars, qr_vars>>

RefreshCookie ==
  /\ call # None
  /\ call[1].fn = "refresh_cookie"
  /\ call[1].out = None
  /\ call' = Some([call[1] EXCEPT !.out = Some(refresh_cookie(call[1].arg))])
  /\ UNCHANGED <<refresh_vars, sign_vars, derive_vars, qr_vars>>

ConfirmRefresh ==
  /\ call # None
  /\ call[1].fn = "confirm_refresh"
  /\ call[1].out = None
  /\ call' = Some([call[1] EXCEPT !.out = Some(confirm_refresh(call[1].arg))])
  /\ UNCHANGED <<refresh_vars, sign_vars, derive_vars, qr_vars>>

LoginInfo ==
  /\ call # None
  /\ call[1].fn = "get_login_info"
  /\ call[1].out = None
  /\ call' = Some([call[1] EXCEPT !.out = Some(get_login_info(call[1].arg))])
  /\ UNCHANGED <<refresh_vars, sign_vars, derive_vars, qr_vars>>

PollState ==
  /\ call # None
  /\ call[1].fn = "poll_login_state"
  /\ call[1].out = None
  /\ call' = Some([call[1] EXCEPT !.out =
                     Some(poll_login_state(call[1].arg, get_cookies(qr_jar, TRUE, TRUE)))])
  /\ UNCHANGED <<refresh_vars, sign_vars, derive_vars, qr_vars>>

NextEnvelope ==
  \/ CheckCookie
  \/ RefreshCookie
  \/ ConfirmRefresh
  \/ LoginInfo
  \/ PollState

InitEnvelope ==
  \E op \in EnvelopeOps :
    InitCall({[fn |-> op, arg |-> resp, out |-> None] : resp \in EnvelopesOf(op)})

SpecEnvelope == InitEnvelope /\ [][NextEnvelope]_vars

\* ---------------------------------------------------------- error rendering
\* The arms of the match in try_parse_error_code, in source order; each
\* message is given by its English gloss.
ERROR_TABLE ==
  <<
     <<0, "no error">>,
     <<-1, "application does not exist or is banned">>,
     <<-2, "Access Key error">>,
     <<-3, "API signing key error">>,
     <<-4, "caller has no permission for this Method">>,
     <<-101, "account not logged in">>,
     <<-102, "account suspended">>,
     <<-103, "not enough points">>,
     <<-104, "not enough coins">>,
     <<-105, "captcha error">>,
     <<-106, "account is not a full member or is on probation">>,
     <<-107, "app does not exist or is banned">>,
     <<-108, "phone not bound">>,
     <<-110, "phone not bound">>,
     <<-111, "csrf check failed">>,
     <<-112, "system upgrading">>,
     <<-113, "account not yet real-name verified">>,
     <<-114, "bind a phone first">>,
     <<-115, "complete real-name verification first">>,
     <<-304, "not modified">>,
     <<-307, "collision redirect">>,
     <<-400, "bad request">>,
     <<-401, "unauthenticated (or illegal request)">>,
     <<-403, "insufficient access rights">>,
     <<-404, "nothing here">>,
     <<-405, "method not supported">>,
     <<-409, "conflict">>,
     <<-412, "request intercepted (client ip under server risk control)">>,
     <<-500, "server error">>,
     <<-503, "overload protection, service unavailable">>,
     <<-504, "service call timed out">>,
     <<-509, "limit exceeded">>,
     <<-616, "uploaded file does not exist">>,
     <<-617, "uploaded file too large">>,
     <<-625, "too many failed logins">>,
     <<-626, "user does not exist">>,
     <<-628, "password too weak">>,
     <<-629, "wrong user name or password">>,
     <<-632, "limit on number of operated objects">>,
     <<-643, "locked">>,
     <<-650, "user level too low">>,
     <<-652, "duplicate user">>,
     <<-658, "Token expired">>,
     <<-662, "password timestamp expired">>,
     <<-688, "region restricted">>,
     <<-689, "copyright restricted">>,
     <<-701, "deducting moral points failed">>,
     <<-799, "requests too frequent, try again later">>,
     <<-8888, "sorry, the server dozed off">>
  >>

\* The arm `_ =>` of try_parse_error_code.
UNKNOWN_ERROR == "unknown error"

\* try_parse_error_code: the message of the arm whose literal is error_code,
\* the fallback when no arm matches.
try_parse_error_code(error_code) ==
  IF \E i \in DOMAIN ERROR_TABLE : ERROR_TABLE[i][1] = error_code
  THEN ERROR_TABLE[CHOOSE i \in DOMAIN ERROR_TABLE : ERROR_TABLE[i][1] = error_code][2]
  ELSE UNKNOWN_ERROR

\* The strings the constructors of BError store (format! with a fixed prefix).
message_of(e) ==
  CASE e.kind = "NetworkError" -> "Network error, "
    [] e.kind = "JsonParseError" -> "Json parse error, "
    [] e.kind = "InternalError" -> "Internal error, "

\* Mutant: every code is looked up in the table.
fmt_always_table(e) ==
  CASE e.kind = "WbiTokenExpired" -> "Wbi token expired, try re-run"
    [] e.kind = "BilibiliError" -> try_parse_error_code(e.code)
    [] OTHER -> message_of(e)

\* impl Display for BError: fmt.
fmt(e) ==
  CASE e.kind = "WbiTokenExpired" -> "Wbi token expired, try re-run"
    [] e.kind = "BilibiliError" ->
         IF ~(e.code > 0) THEN try_parse_error_code(e.code)
         ELSE "Bilibili server returned an error, code is " \o ToString(e.code)
    [] OTHER -> message_of(e)

\* Codes a server can return: those of the table, non-positive codes outside
\* it, and positive codes.
ErrorCodes ==
  {ERROR_TABLE[i][1] : i \in DOMAIN ERROR_TABLE}
  \cup {-5, -100, -109, -116, -413, -8887, -8889}
  \cup {1, 412, 8888, 86038, 86090, 86095, 86101}
BErrors ==
  {from_bilibili_err(c) : c \in ErrorCodes}
  \cup {WbiTokenExpired, from_net_err, from_json_err, from_internal_err}

Display ==
  /\ call # None
  /\ call[1].fn = "fmt"
  /\ call[1].out = None
  /\ call' = Some([call[1] EXCEPT !.out = Some(fmt(call[1].arg))])
  /\ UNCHANGED <<refresh_vars, sign_vars, derive_vars, qr_vars>>

NextDisplay == Display

InitDisplay == InitCall({[fn |-> "fmt", arg |-> e, out |-> None] : e \in BErrors})

SpecDisplay == InitDisplay /\ [][NextDisplay]_vars

\* ----------------------------------------------- examples/qrcode_login: main
\* The match on the polled state: Success breaks the loop, QRCodeExpired
\* returns from main, the two waiting states fall through to the sleep.
\* Mutant: an expired code breaks the loop like a success.
after_poll_expired_breaks(state) ==
  CASE state.state \in {"Success", "QRCodeExpired"} -> "Save"
    [] OTHER -> "Sleep"

after_poll(state) ==
  CASE state.state = "Success" -> "Save"
    [] state.state = "QRCodeExpired" -> "Returned"
    [] state.state = "WaitConfirm" -> "Sleep"
    [] state.state = "WaitScan" -> "Sleep"

\* `.unwrap()`: an Err panics, Ok goes on to statement `to`.
unwrap_to(r, to) == IF IsOk(r) THEN to ELSE "Panicked"

\* What WbiClientBuilder::build returns: the client, the error of the reqwest
\* builder, or an error of WbiSign::from_server.
BuildResults == {Ok("client"), from_internal_err, from_net_err, from_json_err}

\* let client = WbiClient::builder().build().await.unwrap();
MainBuild ==
  /\ main_pc = "Build"
  /\ \E r \in BuildResults : main_pc' = unwrap_to(r, "GetLoginInfo")
  /\ UNCHANGED <<qr_login, qr_jar, polled, polls, cred_file>>
  /\ UNCHANGED <<refresh_vars, sign_vars, derive_vars, fn_vars>>

\* let login = QRCodeLogin::get_login_info(&client).await.unwrap();
MainGetLoginInfo ==
  /\ main_pc = "GetLoginInfo"
  /\ \E fault \in Faults, code \in {0, -412} :
       LET resp == Wire(fault, code, Some([url |-> "url", qrcode_key |-> "key"]))
           r == get_login_info(resp)
       IN /\ qr_login' = IF IsOk(r) THEN Some(Unwrap(r)) ELSE None
          /\ main_pc' = unwrap_to(r, "Render")
  /\ UNCHANGED <<qr_jar, polled, polls, cred_file>>
  /\ UNCHANGED <<refresh_vars, sign_vars, derive_vars, fn_vars>>

\* let code = login.get_login_qrcode().unwrap(); and the println of its rendering
MainRender ==
  /\ main_pc = "Render"
  /\ \E qr_ok \in BOOLEAN :
       main_pc' = IF qr_ok THEN "Poll" ELSE "Panicked"
  /\ UNCHANGED <<qr_login, qr_jar, polled, polls, cred_file>>
  /\ UNCHANGED <<refresh_vars, sign_vars, derive_vars, fn_vars>>

\* let state = login.poll_login_state(&client).await.unwrap(); match state { .. }
MainPoll ==
  /\ main_pc = "Poll"
  /\ \E e \in PollEvents :
       LET j == IF e.resp.wire = "send_err" THEN qr_jar ELSE set_cookies(qr_jar, e.sc)
           out == poll_login_state(e.resp, get_cookies(j, e.lock_ok, e.save_ok))
       IN /\ qr_jar' = j
          /\ polled' = Some([resp |-> e.resp, jar |-> j, lock_ok |-> e.lock_ok,
                             save_ok |-> e.save_ok, out |-> out])
          /\ main_pc' = IF IsOk(out) THEN after_poll(Unwrap(out)) ELSE "Panicked"
  /\ UNCHANGED <<qr_login, polls, cred_file>>
  /\ UNCHANGED <<refresh_vars, sign_vars, derive_vars, fn_vars>>

\* sleep(Duration::from_secs(10)).await; and the next iteration
MainSleep ==
  /\ main_pc = "Sleep"
  /\ main_pc' = "Poll"
  /\ UNCHANGED <<qr_login, qr_jar, polled, polls, cred_file>>
  /\ UNCHANGED <<refresh_vars, sign_vars, derive_vars, fn_vars>>

\* OpenOptions::new().create(true).truncate(true).write(true).open(..).unwrap();
\* cred.save_json(&mut f).unwrap(); the file is truncated once opened.
MainSave ==
  /\ main_pc = "Save"
  /\ \E open_ok \in BOOLEAN, w_ok \in BOOLEAN :
       /\ cred_file' = IF ~open_ok THEN cred_file
                       ELSE IF ~w_ok THEN Some([complete |-> FALSE, cred |-> None])
                       ELSE Some([complete |-> TRUE, cred |-> Unwrap(polled[1].out).cred])
       /\ main_pc' = IF open_ok /\ w_ok THEN "Exited" ELSE "Panicked"
  /\ UNCHANGED <<qr_login, qr_jar, polled, polls>>
  /\ UNCHANGED <<refresh_vars, sign_vars, derive_vars, fn_vars>>

NextMain ==
  \/ MainBuild
  \/ MainGetLoginInfo
  \/ MainRender
  \/ MainPoll
  \/ MainSleep
  \/ MainSave

SpecMain == Init /\ [][NextMain]_vars /\ WF_vars(NextMain)

\* ------------------------------------------------------------ refresh claims
Order ==
  <<"CheckRequired", "DeriveCorrespondPath", "FetchServerCsrf", "ReadLocalCsrf",
    "ExchangeToken", "ConfirmOldToken", "Persist", "Done">>
IsPrefix(s, t) == Len(s) <= Len(t) /\ s = SubSeq(t, 1, Len(s))
EpsOf(a) == [i \in 1..Len(reqs[a]) |-> reqs[a][i].ep]
Ended(a) == pc[a] \in {"Done", "Failed"}
CheckSaid(a, b) == loc[a].data # None /\ loc[a].data[1].refresh = b
ExchangeSucceeded(a) ==
  /\ atExchange[a] # None
  /\ atExchange[a][1].resp.wire = "ok"
  /\ atExchange[a][1].resp.code = 0
  /\ atExchange[a][1].resp.data # None
ConfirmFailed(a) ==
  /\ atConfirm[a] # None
  /\ atConfirm[a][1].resp.wire # "ok" \/ atConfirm[a][1].resp.code # 0

\* C1: when the check reports refresh = false, the call has returned Ok, the
\* check is the only request it sent, and the Credential is what it was before.
C1_ShortCircuit ==
  \A a \in Holders :
    CheckSaid(a, FALSE) =>
      /\ pc[a] = "Done"
      /\ result[a] = Some(Ok("unit"))
      /\ EpsOf(a) = <<"check">>
      /\ cred[a] = prev[a]

\* C1 witness: a short-circuited call whose check response changed the cookie
\* store, the Credential being left alone.
C1_Witness ==
  \E a \in Holders :
    /\ CheckSaid(a, FALSE)
    /\ pc[a] = "Done"
    /\ cookie_jar[a] # load_json(cred[a].cookies)

\* C2: the steps an attempt has entered are an initial part of CheckRequired,
\* DeriveCorrespondPath, FetchServerCsrf, ReadLocalCsrf, ExchangeToken,
\* ConfirmOldToken, Persist, Done, or such a part ending in Failed instead (or
\* CheckRequired, Done when no refresh is required); a step is entered only
\* with the results of the steps before it, and the requests go out in the
\* order check, CSRF page, exchange, confirm.
C2_StepOrder ==
  \A a \in Holders :
    LET st == steps[a]
        n == Len(st)
        In(s) == \E i \in 1..n : st[i] = s
    IN /\ \/ IsPrefix(st, Order) /\ (n = 8 => CheckSaid(a, TRUE))
          \/ /\ n >= 2
             /\ n <= 8
             /\ st[n] = "Failed"
             /\ IsPrefix(SubSeq(st, 1, n - 1), Order)
          \/ st = <<"CheckRequired", "Done">> /\ CheckSaid(a, FALSE)
       /\ n > 0 => pc[a] = st[n]
       /\ In("DeriveCorrespondPath") => CheckSaid(a, TRUE)
       /\ In("FetchServerCsrf") => loc[a].cp # None
       /\ In("ReadLocalCsrf") => loc[a].refresh_csrf # None
       /\ In("ExchangeToken") => loc[a].csrf # None
       /\ In("ConfirmOldToken") => loc[a].new_refresh_token # None
       /\ In("Persist") => atConfirm[a] # None /\ ~ConfirmFailed(a)
       /\ IsPrefix(EpsOf(a), <<"check", "csrf_page", "exchange", "confirm">>)

\* C2 witness: an attempt that required a refresh and went through all steps.
C2_Witness ==
  \E a \in Holders : steps[a] = Order /\ CheckSaid(a, TRUE)

\* The requests an attempt has sent once it has run step s.
ReqsThrough(s) ==
  CASE s \in {"CheckRequired", "DeriveCorrespondPath"} -> <<"check">>
    [] s \in {"FetchServerCsrf", "ReadLocalCsrf"} -> <<"check", "csrf_page">>
    [] s = "ExchangeToken" -> <<"check", "csrf_page", "exchange">>
    [] OTHER -> <<"check", "csrf_page", "exchange", "confirm">>
\* The error kinds step s can end the call with.
KindsOf(s) ==
  CASE s \in {"CheckRequired", "ExchangeToken", "ConfirmOldToken"} ->
         {"NetworkError", "JsonParseError", "BilibiliError"}
    [] s = "FetchServerCsrf" -> {"NetworkError", "InternalError"}
    [] OTHER -> {"InternalError"}

\* C3: no endpoint is requested twice in one attempt; a call that failed has
\* returned an error of a kind its failing step produces, and has sent the
\* requests of the steps up to the failing one and no others; a call that
\* returned an error is over.
C3_FailFast ==
  \A a \in Holders :
    /\ \A i, j \in 1..Len(reqs[a]) : reqs[a][i].ep = reqs[a][j].ep => i = j
    /\ pc[a] = "Failed" =>
         /\ Len(steps[a]) >= 2
         /\ result[a] # None
         /\ result[a][1].kind \in KindsOf(steps[a][Len(steps[a]) - 1])
         /\ EpsOf(a) = ReqsThrough(steps[a][Len(steps[a]) - 1])
    /\ pc[a] # "Failed" => (result[a] = None \/ IsOk(result[a][1]))
    /\ result[a] # None => Ended(a)

\* C3 witness: an attempt that failed at the exchange, after three requests.
C3_Witness ==
  \E a \in Holders :
    /\ pc[a] = "Failed"
    /\ Len(steps[a]) = 6
    /\ steps[a][5] = "ExchangeToken"
    /\ result[a][1].kind = "BilibiliError"

\* C4: an attempt that is over and whose exchange returned a new token has sent
\* the confirm request, and if the confirmation failed (transport error, bad
\* body or nonzero code) the call returned that error.
C4_ConfirmAttempted ==
  \A a \in Holders :
    (Ended(a) /\ ExchangeSucceeded(a)) =>
      /\ \E i \in 1..Len(reqs[a]) : reqs[a][i].ep = "confirm"
      /\ atConfirm[a] # None
      /\ ConfirmFailed(a) =>
           /\ pc[a] = "Failed"
           /\ result[a][1] =
                (CASE atConfirm[a][1].resp.wire = "send_err" -> from_net_err
                   [] atConfirm[a][1].resp.wire = "bad_json" -> from_json_err
                   [] OTHER -> from_bilibili_err(atConfirm[a][1].resp.code))

\* C4 witness: the exchange succeeded, the server refused the confirmation.
C4_Witness ==
  \E a \in Holders :
    /\ Ended(a)
    /\ ExchangeSucceeded(a)
    /\ atConfirm[a] # None
    /\ atConfirm[a][1].resp.wire = "ok"
    /\ atConfirm[a][1].resp.code # 0

\* C5: after an attempt that required a refresh and returned Ok, the
\* Credential holds the token of the exchange response and the serialization
\* of the cookie store as it was once the confirmation completed; a persistent
\* cookie the exchange response set, and the confirmation did not set again, is
\* in it.
C5_Persisted ==
  \A a \in Holders :
    (pc[a] = "Done" /\ CheckSaid(a, TRUE)) =>
      /\ ExchangeSucceeded(a)
      /\ atConfirm[a] # None
      /\ cred[a].refresh_token = atExchange[a][1].resp.data[1]
      /\ cred[a].cookies = save_json(atConfirm[a][1].jar)
      /\ \A n \in CookieNames :
           LET x == atExchange[a][1].sc[n] IN
           (x # None /\ x[1].persistent /\ atConfirm[a][1].sc[n] = None)
             => cred[a].cookies[n] = x

\* C5 witness: a completed refresh whose exchange response set cookies that the
\* Credential did not hold before.
C5_Witness ==
  \E a \in Holders :
    /\ pc[a] = "Done"
    /\ CheckSaid(a, TRUE)
    /\ atExchange[a][1].sc # NoSetCookie
    /\ cred[a].cookies # prev[a].cookies
    /\ cred[a].refresh_token # prev[a].refresh_token

\* C6: nothing serializes the flow: an attempt that has reached the exchange
\* with a token the server still accepts can exchange it whatever step the
\* other attempt is at.
C6_NoLock ==
  \A a \in Holders :
    (pc[a] = "ExchangeToken" /\ cred[a].refresh_token \in srvValid
       /\ srvNext <= MaxTokens)
      => ENABLED (ExchangeToken(a) /\ pc'[a] = "ConfirmOldToken")

\* C6 witness: both attempts exchanged the same old token, one has had it
\* invalidated by its confirmation while the other has not confirmed yet.
C6_Witness ==
  /\ <<0, 1, 1>> \in exchanged
  /\ <<0, 2, 1>> \in exchanged
  /\ pc[1] = "ConfirmOldToken"
  /\ pc[2] = "Persist"
  /\ 0 \notin srvValid

\* C7 as claimed: no token is successfully exchanged in more than one attempt.
C7_SingleUse ==
  \A x, y \in exchanged : x[1] = y[1] => x = y

\* C7 amended: once an attempt that exchanged a token has returned Ok, no later
\* attempt on that Credential sends that token to the exchange endpoint (so a
\* token is exchanged again only after attempts that returned an error).
C7_SingleUseAfterOk ==
  \A x \in exchanged : \A y \in exchSent :
    (x[1] = y[1] /\ x[2] = y[2] /\ <<x[2], x[3]>> \in returnedOk) => y[3] <= x[3]

\* C7 witness: a second attempt exchanging the token that the first attempt
\* had stored after returning Ok.
C7_Witness ==
  /\ <<1, 1>> \in returnedOk
  /\ <<0, 1, 1>> \in exchanged
  /\ <<1, 1, 2>> \in exchanged

\* ------------------------------------------------------------ signing claims
WtsKey == <<"w", "t", "s">>
WridKey == <<"w", "_", "r", "i", "d">>
\* The pairs of inp ascending by key, pairs of equal key in their order in inp.
Ascending(inp) ==
  LET n == Len(inp)
      perms == {f \in [1..n -> 1..n] : \A i, j \in 1..n : f[i] = f[j] => i = j}
      f0 == CHOOSE f \in perms :
              \A i, j \in 1..n :
                i < j => \/ StrLess(inp[f[i]][1], inp[f[j]][1])
                         \/ inp[f[i]][1] = inp[f[j]][1] /\ f[i] < f[j]
  IN [i \in 1..n |-> inp[f0[i]]]
\* The last signing call read the clock and got t.
SignedAt(t) == signed # None /\ signed[1].ts = Ok(t)
SignedOk == signed # None /\ IsOk(signed[1].out)

\* C8: a signing call that read the clock at or after the key's expire_time
\* returned WbiTokenExpired whatever the query, and one that read it before
\* expire_time did not return WbiTokenExpired.
C8_Expiry ==
  \A t \in Clocks :
    SignedAt(t) =>
      /\ t >= signed[1].key.expire_time => signed[1].out = WbiTokenExpired
      /\ t < signed[1].key.expire_time => signed[1].out.kind # "WbiTokenExpired"

\* C8 witness: a call exactly at expire_time, with a query that cannot be
\* signed, returned WbiTokenExpired.
C8_Witness ==
  /\ SignedAt(signed[1].key.expire_time)
  /\ ~IsOk(from_str(to_string(signed[1].data)))
  /\ signed[1].out = WbiTokenExpired

\* C9 as claimed: the signed query is the caller's pairs in their order, then
\* wts, then w_rid.
C9_OriginalOrder ==
  SignedOk =>
    LET q == Unwrap(signed[1].out)
        n == Len(signed[1].data)
    IN /\ Len(q) = n + 2
       /\ SubSeq(q, 1, n) = signed[1].data
       /\ q[n + 1] = <<WtsKey, to_dec(Unwrap(signed[1].ts))>>
       /\ q[n + 2][1] = WridKey

\* C9 amended: the signed query is the caller's pairs and wts in ascending order
\* of key (equal keys in the caller's order, wts after a caller's wts), then
\* w_rid as the last pair.
C9_SortedOrder ==
  SignedOk =>
    LET q == Unwrap(signed[1].out)
        n == Len(signed[1].data)
        inp == Append(signed[1].data, <<WtsKey, to_dec(Unwrap(signed[1].ts))>>)
    IN /\ Len(q) = n + 2
       /\ SubSeq(q, 1, n + 1) = Ascending(inp)
       /\ q[n + 2][1] = WridKey

\* C9 witness: a signed query whose pairs the caller gave in descending order.
C9_Witness ==
  /\ SignedOk
  /\ Len(signed[1].data) = 2
  /\ StrLess(signed[1].data[2][1], signed[1].data[1][1])

\* C10: in a signed query, w_rid is the digest of the URL-encoding of the
\* caller's pairs and wts = clock in ascending order of key, directly followed
\* by the mixin_key, and the wts sorted last among wts pairs is the decimal
\* string of the clock value the call read.
C10_Digest ==
  SignedOk =>
    LET q == Unwrap(signed[1].out)
        t == Unwrap(signed[1].ts)
        inp == Append(signed[1].data, <<WtsKey, to_dec(t)>>)
        last_wts == CHOOSE i \in 1..Len(q) :
                      /\ q[i][1] = WtsKey
                      /\ \A j \in (i + 1)..Len(q) : q[j][1] # WtsKey
    IN /\ q[Len(q)] =
            <<WridKey, md5_hex(to_string(Ascending(inp)) \o signed[1].key.mixin_key)>>
       /\ q[last_wts][2] = to_dec(t)

\* C10 witness: a signed query of two pairs given in descending order of key,
\* signed at a two-digit clock value.
C10_Witness ==
  /\ SignedOk
  /\ SignedAt(10)
  /\ Len(signed[1].data) = 2
  /\ signed[1].data[1][1] = <<"x">>
  /\ signed[1].data[2][1] = <<"a">>

\* --------------------------------------------------------- derivation claims
DerivedOk == derived # None /\ IsOk(derived[1].out)
\* What follows the last '/' of s.
RECURSIVE LastSegment(_)
LastSegment(s) ==
  IF \A i \in 1..Len(s) : s[i] # "/" THEN s ELSE LastSegment(Tail(s))
\* What precedes the first '.' of s.
RECURSIVE UpToDot(_)
UpToDot(s) ==
  IF s = <<>> \/ Head(s) = "." THEN <<>> ELSE <<Head(s)>> \o UpToDot(Tail(s))
\* The key inside a url of the nav response; of a string that is no such url,
\* its last segment up to the first '.'.
KeyIn(url) ==
  IF \E k \in WbiKeys : UrlOf(k) = url THEN CHOOSE k \in WbiKeys : UrlOf(k) = url
  ELSE UpToDot(LastSegment(url))
\* Fragment 1 followed by fragment 2 of the last derivation.
SourceOf(d) ==
  KeyIn(d.resp.data[1].wbi_img.img_url) \o KeyIn(d.resp.data[1].wbi_img.sub_url)
Count(c, s) == Cardinality({i \in 1..Len(s) : s[i] = c})

C12_First32 ==
  DerivedOk =>
    LET k == Unwrap(derived[1].out).mixin_key
        d == derived[1].resp.data[1].wbi_img
    IN /\ Len(k) = 32
       /\ k = SubSeq(mixin_key_of(KeyIn(d.img_url), KeyIn(d.sub_url)), 1, 32)

\* C13 as claimed: for a derivation at the instant now >= 0, expire_time is the
\* smallest T > now with (T + 28800) mod 86400 = 0, so now < T <= now + 86400.
C13_NextMidnightEast8 ==
  (derived # None /\ derived[1].resp.wire = "ok" /\ derived[1].resp.data # None
     /\ derived[1].utc >= 0) =>
    /\ IsOk(derived[1].out)
    /\ LET T == Unwrap(derived[1].out).expire_time
           now_ == derived[1].utc
       IN /\ T > now_
          /\ (T + 28800) % 86400 = 0
          /\ T <= now_ + 86400

\* ----------------------------------------------------------- QR login claims
\* The last poll read a response that has data.
PolledData == polled # None /\ polled[1].resp.wire = "ok" /\ polled[1].resp.data # None
\* The state the protocol assigns to a status code.
StateOf(code) ==
  CASE code = 0 -> "Success"
    [] code = 86038 -> "QRCodeExpired"
    [] code = 86090 -> "WaitConfirm"
    [] code = 86101 -> "WaitScan"
    [] OTHER -> "no state"

\* C14: a poll that read data.code 86038, 86090, 86101 returned QRCodeExpired,
\* WaitConfirm, WaitScan; one that read 0 returned Success (or, when the cookie
\* store could not be read or saved for the Credential, the InternalError of
\* get_cookies); one that read any other code returned JsonParseError, never a
\* state; the envelope's own code plays no part.
C14_Mapping ==
  PolledData =>
    LET code == polled[1].resp.data[1].code
        out == polled[1].out
    IN /\ code = 0 =>
            IF polled[1].lock_ok /\ polled[1].save_ok
            THEN IsOk(out) /\ Unwrap(out).state = "Success" /\ Unwrap(out).cred # None
            ELSE out = from_internal_err
       /\ code = 86038 => out = Ok(QRCodeExpired)
       /\ code = 86090 => out = Ok(WaitConfirm)
       /\ code = 86101 => out = Ok(WaitScan)
       /\ code \notin {0, 86038, 86090, 86101} => out = from_json_err
       /\ IsOk(out) => Unwrap(out).state = StateOf(code)

\* C14 witness: a poll that read the code next to a known one and returned
\* JsonParseError, after a poll that returned a state.
C14_Witness ==
  /\ PolledData
  /\ polled[1].resp.data[1].code = 86039
  /\ polled[1].out = from_json_err
  /\ Len(polls) > 0

\* C15: every poll that returned a state returned the state of the code it
\* read, whatever the polls before it returned; a Success carries the
\* refresh_token of that poll's response and the serialization of the cookie
\* store as it is after that response (its cookies stored); the other states
\* carry nothing.
C15_Memoryless ==
  /\ \A k \in 1..Len(polls) : polls[k][2] = StateOf(polls[k][1])
  /\ (polled # None /\ IsOk(polled[1].out)) =>
       LET out == Unwrap(polled[1].out)
           poll == polled[1].resp.data[1]
       IN /\ polls # <<>>
          /\ polls[Len(polls)] = <<poll.code, out.state>>
          /\ polled[1].jar = qr_jar
          /\ IF out.state = "Success"
             THEN out.cred = Some([cookies |-> save_json(qr_jar),
                                   refresh_token |-> poll.refresh_token])
             ELSE out.cred = None

\* C15 witness: polls that read 86101, 86090, 0 returned WaitScan, WaitConfirm,
\* Success, the Success carrying tok123 and the cookies its response set.
C15_Witness ==
  /\ polls = <<<<86101, "WaitScan">>, <<86090, "WaitConfirm">>, <<0, "Success">>>>
  /\ polled # None
  /\ IsOk(polled[1].out)
  /\ Unwrap(polled[1].out).cred[1].refresh_token = "tok123"
  /\ Unwrap(polled[1].out).cred[1].cookies["SESSDATA"] # None

\* ----------------------------------------------------- credential claims
\* C16: for every Credential c, load_json of the bytes save_json wrote for c
\* returns Ok with the cookies and the refresh_token of c.
C16_RoundTrip ==
  (call # None /\ call[1].fn = "json" /\ call[1].file # None /\ IsOk(call[1].file[1])
     /\ call[1].out # None) =>
    /\ IsOk(call[1].out[1])
    /\ Unwrap(call[1].out[1]).cookies = call[1].arg.cookies
    /\ Unwrap(call[1].out[1]).refresh_token = call[1].arg.refresh_token

\* C16 witness: a Credential whose cookies hold a quote and a backslash was
\* saved and loaded.
C16_Witness ==
  /\ call # None
  /\ call[1].fn = "json"
  /\ call[1].arg.cookies = <<QUOTE, BACKSLASH>>
  /\ call[1].arg.refresh_token = <<QUOTE, ",">>
  /\ call[1].out # None
  /\ IsOk(call[1].out[1])

\* ------------------------------------------------------------- hex claims
Hexed == call # None /\ call[1].fn = "hex" /\ call[1].out # None
\* The two-digit lowercase hexadecimal numeral of a byte.
TwoDigits(b) == <<HexDigits[(b \div 16) + 1], HexDigits[(b % 16) + 1]>>
\* The bytes a string of hexadecimal digit pairs stands for.
HexDecode(str) ==
  [i \in 1..(Len(str) \div 2) |-> HexVal(str[2 * i - 1]) * 16 + HexVal(str[2 * i])]

\* C17: the encoding of a byte vector b has 2 * len(b) characters, all of
\* 0-9a-f; characters 2i and 2i+1 (from 0) are the two-digit lowercase
\* hexadecimal numeral of b[i], high nibble first; decoding it gives b.
C17_HexDigest ==
  Hexed =>
    LET b == call[1].arg
        out == call[1].out[1]
    IN /\ Len(out) = 2 * Len(b)
       /\ \A k \in 1..Len(out) : IsHex(out[k])
       /\ \A i \in 1..Len(b) : <<out[2 * i - 1], out[2 * i]>> = TwoDigits(b[i])
       /\ HexDecode(out) = b

\* C17 witness: the bytes ab, 0f were encoded as "ab0f".
C17_Witness ==
  /\ Hexed
  /\ call[1].arg = <<171, 15>>
  /\ call[1].out[1] = <<"a", "b", "0", "f">>

\* ---------------------------------------------------------- envelope claims
\* C18 as claimed: each of the five operations, on an envelope with a nonzero
\* code, returns BilibiliError(code); on an envelope with code 0 and no data,
\* an operation that requires data returns JsonParseError.
C18_Envelope ==
  (call # None /\ call[1].fn \in EnvelopeOps /\ call[1].out # None
     /\ call[1].arg.wire = "ok") =>
    /\ call[1].arg.code # 0 => call[1].out[1] = from_bilibili_err(call[1].arg.code)
    /\ (call[1].arg.code = 0 /\ call[1].arg.data = None
          /\ call[1].fn # "confirm_refresh") => call[1].out[1] = from_json_err

\* ------------------------------------------------------------ expiry claims
\* C19 as claimed: no signing call changes the client's key, and under a clock
\* that never goes back a client whose last signing call returned
\* WbiTokenExpired gets WbiTokenExpired from every later signing call.
C19_NeverRefreshed ==
  [][/\ wbi_key' = wbi_key
     /\ (signed # None /\ signed[1].out = WbiTokenExpired)
          => (signed' # None /\ signed'[1].out = WbiTokenExpired)]_vars

\* ---------------------------------------------------------- rendering claims
Rendered == call # None /\ call[1].fn = "fmt" /\ call[1].out # None
                /\ call[1].arg.kind = "BilibiliError"
InTable(c) == \E i \in DOMAIN ERROR_TABLE : ERROR_TABLE[i][1] = c

\* C20 as claimed: a code of the table is rendered as its entry, every other
\* code, negative or positive, as the unknown-error fallback.
C20_FallbackForAll ==
  Rendered =>
    /\ \A i \in DOMAIN ERROR_TABLE :
         call[1].arg.code = ERROR_TABLE[i][1] => call[1].out[1] = ERROR_TABLE[i][2]
    /\ ~InTable(call[1].arg.code) => call[1].out[1] = UNKNOWN_ERROR

\* C20 as amended: a code of the table is rendered as its entry; a code that
\* is zero or negative and not in the table as the unknown-error fallback; a
\* positive code as the fixed sentence followed by the code in decimal, never
\* as the fallback.
C20_Rendering ==
  Rendered =>
    /\ \A i \in DOMAIN ERROR_TABLE :
         call[1].arg.code = ERROR_TABLE[i][1] => call[1].out[1] = ERROR_TABLE[i][2]
    /\ (~InTable(call[1].arg.code) /\ call[1].arg.code <= 0)
         => call[1].out[1] = UNKNOWN_ERROR
    /\ call[1].arg.code > 0
         => /\ call[1].out[1] =
                 "Bilibili server returned an error, code is " \o ToString(call[1].arg.code)
            /\ call[1].out[1] # UNKNOWN_ERROR

\* C20 witness: a positive code was rendered.
C20_Witness == Rendered /\ call[1].arg.code = 86038

\* ------------------------------------------------- refresh claims, continued
\* C21: while an attempt runs, and after it has returned an error at whatever
\* step, the Credential's cookies and refresh_token are what they were before
\* the call: a new token the exchange returned, and cookies the store received,
\* are not stored.
C21_ErrorLeavesCredential ==
  \A a \in Holders :
    /\ pc[a] = "Failed" => (result[a] # None /\ ~IsOk(result[a][1]) /\ cred[a] = prev[a])
    /\ pc[a] \notin {"Idle", "Done", "Failed"} => cred[a] = prev[a]

\* C21 witness: the confirmation failed after the exchange returned a new
\* token and the cookie store received new cookies.
C21_Witness ==
  \E a \in Holders :
    /\ pc[a] = "Failed"
    /\ ExchangeSucceeded(a)
    /\ ConfirmFailed(a)
    /\ loc[a].new_refresh_token # None
    /\ loc[a].new_refresh_token[1] # cred[a].refresh_token
    /\ save_json(cookie_jar[a]) # cred[a].cookies

\* The requests of attempt a to endpoint ep.
SentTo(a, ep) == {i \in 1..Len(reqs[a]) : reqs[a][i].ep = ep}

\* C22: the exchange POST carries csrf = the bili_jct value ReadLocalCsrf read
\* from the store, refresh_csrf = the value FetchServerCsrf extracted, source
\* and refresh_token = the token the Credential held when the attempt started;
\* the confirm POST carries csrf = that same extracted value and refresh_token
\* = that same old token, never the token the exchange issued.
C22_Forms ==
  /\ [](\A a \in Holders :
          /\ \A i \in SentTo(a, "exchange") :
               /\ reqs[a][i].csrf = loc[a].csrf
               /\ reqs[a][i].csrf # None
               /\ reqs[a][i].refresh_csrf = loc[a].refresh_csrf
               /\ reqs[a][i].refresh_csrf # None
               /\ reqs[a][i].source = Some("main_web")
               /\ reqs[a][i].refresh_token = Some(prev[a].refresh_token)
               /\ reqs[a][i].refresh_token # loc[a].new_refresh_token
          /\ \A i \in SentTo(a, "confirm") :
               /\ reqs[a][i].csrf = loc[a].refresh_csrf
               /\ reqs[a][i].csrf # None
               /\ reqs[a][i].refresh_csrf = None
               /\ reqs[a][i].source = None
               /\ reqs[a][i].refresh_token = Some(prev[a].refresh_token)
               /\ reqs[a][i].refresh_token # loc[a].new_refresh_token)
  /\ [][\A a \in Holders :
          /\ (pc[a] = "ReadLocalCsrf" /\ pc'[a] = "ExchangeToken")
               => /\ cookie_jar[a]["bili_jct"] # None
                  /\ loc'[a].csrf = Some(cookie_jar[a]["bili_jct"][1].value)
          /\ (pc[a] = "FetchServerCsrf" /\ pc'[a] = "ReadLocalCsrf")
               => loc'[a].refresh_csrf \in {Some(c) : c \in RefreshCsrfs}
          /\ (pc[a] \in {"ExchangeToken", "ConfirmOldToken"})
               => (loc'[a].csrf = loc[a].csrf /\ loc'[a].refresh_csrf = loc[a].refresh_csrf)
     ]_vars

\* C22 witness: both POSTs went out, the exchange had issued a new token and
\* its response had replaced the bili_jct cookie that the exchange form carried.
C22_Witness ==
  \E a \in Holders :
    /\ SentTo(a, "exchange") # {}
    /\ SentTo(a, "confirm") # {}
    /\ loc[a].new_refresh_token # None
    /\ loc[a].new_refresh_token[1] # prev[a].refresh_token
    /\ cookie_jar[a]["bili_jct"] # None
    /\ Some(cookie_jar[a]["bili_jct"][1].value) # loc[a].csrf

\* The CSRF page attempt a read came back as text without the "1-name" element.
PageLacksElement(a) ==
  /\ atCsrfPage[a] # None
  /\ atCsrfPage[a][1].send
  /\ atCsrfPage[a][1].text
  /\ atCsrfPage[a][1].node = None
NoPostSent(a) == SentTo(a, "exchange") = {} /\ SentTo(a, "confirm") = {}

\* C23: an attempt whose CSRF page lacks the named element, and an attempt
\* that reads the local CSRF from a store without a bili_jct cookie, fails with
\* InternalError, and has sent neither the exchange nor the confirm request.
C23_MissingCsrf ==
  /\ [](\A a \in Holders :
          /\ PageLacksElement(a) =>
               /\ pc[a] = "Failed"
               /\ result[a] = Some(from_internal_err)
               /\ steps[a][Len(steps[a]) - 1] = "FetchServerCsrf"
               /\ NoPostSent(a)
          /\ (pc[a] = "Failed"
                /\ steps[a][Len(steps[a]) - 1] \in {"FetchServerCsrf", "ReadLocalCsrf"})
               => NoPostSent(a))
  /\ [][\A a \in Holders :
          (pc[a] = "ReadLocalCsrf" /\ pc'[a] # "ReadLocalCsrf"
             /\ cookie_jar[a]["bili_jct"] = None)
            => /\ pc'[a] = "Failed"
               /\ result'[a] = Some(from_internal_err)
               /\ reqs'[a] = reqs[a]
               /\ NoPostSent(a)
     ]_vars

\* C23 witness: one attempt failed on a page without the element, the other on
\* a store without bili_jct after a page that had the element.
C23_Witness ==
  /\ PageLacksElement(1)
  /\ pc[1] = "Failed"
  /\ pc[2] = "Failed"
  /\ steps[2][Len(steps[2]) - 1] = "ReadLocalCsrf"
  /\ atCsrfPage[2] # None
  /\ atCsrfPage[2][1].node # None
  /\ cookie_jar[2]["bili_jct"] = None
  /\ result[2] = Some(from_internal_err)

\* ------------------------------------------------------ clock failure claims
\* C24 as claimed: a signing call whose clock read failed returned
\* InternalError, and a derivation whose next-midnight computation failed
\* returned InternalError.
C24_ClockFailureInternal ==
  /\ (signed # None /\ ~IsOk(signed[1].ts)) => signed[1].out = from_internal_err
  /\ (derived # None /\ derived[1].resp.wire = "ok" /\ derived[1].resp.data # None
        /\ ~IsOk(get_next_day(derived[1].utc)))
       => derived[1].out = from_internal_err

\* --------------------------------------------------------- caller loop claims
Waiting == polled # None /\ IsOk(polled[1].out)
             /\ Unwrap(polled[1].out).state \in {"WaitScan", "WaitConfirm"}
PolledState(s) == polled # None /\ IsOk(polled[1].out) /\ Unwrap(polled[1].out).state = s
Answered == polled # None /\ polled[1].resp.wire = "ok" /\ polled[1].resp.data # None
              /\ polled[1].resp.data[1].code \in {0, 86038}
Stopped == main_pc \in {"Exited", "Returned", "Panicked"}

\* C25: the example's loop is at its poll or its sleep exactly when no poll has
\* been made yet or the last one returned WaitScan or WaitConfirm; after a
\* Success, a QRCodeExpired or an error no further poll is made; cred.json is
\* touched only after a Success, and holds that Success's credential when the
\* write completed; once the server has answered 0 or 86038 the loop is left,
\* and main comes to an end.
C25_CallerLoop ==
  /\ [](/\ main_pc \in {"Poll", "Sleep"} => (polled = None \/ Waiting)
        /\ main_pc = "Sleep" => Waiting
        /\ Waiting => main_pc \in {"Poll", "Sleep"}
        /\ PolledState("Success") => main_pc \in {"Save", "Exited", "Panicked"}
        /\ PolledState("QRCodeExpired") => (main_pc = "Returned" /\ cred_file = None)
        /\ (polled # None /\ ~IsOk(polled[1].out))
             => (main_pc = "Panicked" /\ cred_file = None)
        /\ cred_file # None =>
             /\ PolledState("Success")
             /\ cred_file[1].complete
                  => cred_file[1].cred = Unwrap(polled[1].out).cred
        /\ Answered => main_pc \notin {"Poll", "Sleep"})
  /\ [][(polled # None /\ ~Waiting) => polled' = polled]_vars
  /\ (Answered ~> Stopped)

\* C25 witness: a Success ended the loop and the credential was written.
C25_Witness ==
  /\ main_pc = "Exited"
  /\ PolledState("Success")
  /\ cred_file # None
  /\ cred_file[1].complete
  /\ cred_file[1].cred[1].refresh_token = "tok456"

\* ------------------------------------------------- signing claims, continued
\* The number a decimal string denotes.
RECURSIVE DecValue(_)
DecValue(s) ==
  IF s = <<>> THEN 0
  ELSE 10 * DecValue(SubSeq(s, 1, Len(s) - 1))
       + (CHOOSE d \in 0..9 : Digits[d + 1] = s[Len(s)])
\* The wts pair the signer added: the last pair of key wts.
SignerWts(q) ==
  q[CHOOSE i \in 1..Len(q) :
      q[i][1] = WtsKey /\ \A j \in (i + 1)..Len(q) : q[j][1] # WtsKey][2]

\* C26: in every signed query the wts the signer added is below the
\* expire_time of the key that signed it, and it is the value of the one clock
\* reading of the call, which is also the value the expiry check compared.
C26_WtsBelowExpiry ==
  /\ [](SignedOk =>
          /\ DecValue(SignerWts(Unwrap(signed[1].out))) < signed[1].key.expire_time
          /\ signed[1].ts = Ok(DecValue(SignerWts(Unwrap(signed[1].out)))))
  /\ [][signed' # signed =>
          /\ signed'[1].ts = get_timestamp(now)
          /\ signed'[1].key = wbi_key
          /\ IsOk(signed'[1].out) => ~is_expired(now, wbi_key.expire_time)]_vars

\* C26 witness: a query signed in the last second before the key expired.
C26_Witness ==
  /\ SignedOk
  /\ Unwrap(signed[1].ts) = signed[1].key.expire_time - 1
  /\ Len(signed[1].data) > 0

\* The orders in which a caller can supply the pairs of data.
OrdersOf(data) ==
  LET n == Len(data)
      perms == {f \in [1..n -> 1..n] : \A i, j \in 1..n : f[i] = f[j] => i = j}
  IN {[i \in 1..n |-> data[f[i]]] : f \in perms}
KeysDistinct(data) == \A i, j \in 1..Len(data) : data[i][1] = data[j][1] => i = j
\* w_rid of signing data with the key and clock reading of the last call.
WridOf(data) ==
  LET out == sign_data(signed[1].key, data, signed[1].ts) IN Unwrap(out)[Len(Unwrap(out))][2]

\* C27: for the key and clock value of a signed query whose keys are all
\* distinct, signing any permutation of the same pairs succeeds with the same
\* w_rid; for two pairs of the same key and different values, signing them in
\* the other order gives another w_rid.
C27_OrderIndependent ==
  SignedOk =>
    /\ KeysDistinct(signed[1].data) =>
         \A d \in OrdersOf(signed[1].data) :
           /\ IsOk(sign_data(signed[1].key, d, signed[1].ts))
           /\ WridOf(d) = WridOf(signed[1].data)
    /\ (Len(signed[1].data) = 2 /\ signed[1].data[1][1] = signed[1].data[2][1]
          /\ signed[1].data[1][2] # signed[1].data[2][2])
         => WridOf(<<signed[1].data[2], signed[1].data[1]>>) # WridOf(signed[1].data)

\* C27 witness: a signed query of two pairs of distinct keys, supplied in
\* descending order, one of the keys being wts.
C27_Witness ==
  /\ SignedOk
  /\ Len(signed[1].data) = 2
  /\ KeysDistinct(signed[1].data)
  /\ signed[1].data[1][1] = <<"x">>
  /\ signed[1].data[2][1] = WtsKey

\* ------------------------------------------------------- cookie store claims
\* The steps of check_and_refresh that wait for a response.
RoundTrips == {"CheckRequired", "FetchServerCsrf", "ExchangeToken", "ConfirmOldToken"}

\* C28: between any two steps no read guard is held on any cookie store, so the
\* transport's write of a response's cookies is granted whenever an attempt is
\* about to make a round trip; read() is called on the store of an attempt only
\* by ReadLocalCsrf (in get_bilibili_cookie) and by Persist, and on a built
\* client's store by get_cookies.
C28_NoLockAcrossRoundTrip ==
  /\ [](\A s \in Stores : guards[s].held = 0)
  /\ [](\A a \in Holders : pc[a] \in RoundTrips => write_granted(guards[a]))
  /\ [][\A a \in Holders :
          guards'[a].sites # guards[a].sites =>
            \/ pc[a] = "ReadLocalCsrf"
                 /\ guards'[a].sites = guards[a].sites \cup {"get_bilibili_cookie"}
            \/ pc[a] = "Persist"
                 /\ guards'[a].sites = guards[a].sites \cup {"check_and_refresh"}
            \/ pc[a] = "Done" /\ client[a] # None
                 /\ guards'[a].sites = guards[a].sites \cup {"get_cookies"}
            \/ pc'[a] = "CheckRequired" /\ guards'[a] = NoGuards
     ]_vars

\* C28 witness: an attempt read the local CSRF and serialized the store, made
\* the exchange and confirm round trips in between, and the client built on
\* its store took a snapshot.
C28_Witness ==
  /\ pc[1] = "Done"
  /\ guards[1].sites = {"get_bilibili_cookie", "check_and_refresh", "get_cookies"}
  /\ SentTo(1, "exchange") # {}
  /\ SentTo(1, "confirm") # {}
  /\ atConfirm[1] # None
  /\ client[1] # None
  /\ client[1][1].snapshot # None

\* Builder o got a client.
Built(o) == client[o] # None /\ IsOk(client[o][1].built)
\* The cookie the exchange response of attempt a set under name n, when the
\* confirm response set none under that name.
ExchangeCookie(a, n) ==
  IF atExchange[a] # None /\ atExchange[a][1].sc[n] # None
       /\ (atConfirm[a] = None \/ atConfirm[a][1].sc[n] = None)
  THEN atExchange[a][1].sc[n] ELSE None

\* C29: a client built after with_credential exists only if with_credential
\* returned Ok, and its cookie store is the store of that with_credential: the
\* store it was built on held the cookies the exchange response set, and its
\* snapshot is the serialization of that store as it is now; a client built
\* without with_credential started from the empty store, and its store holds
\* nothing but what its own nav response set.
C29_BuiltOnRefreshStore ==
  /\ \A a \in Holders :
       /\ Built(a) =>
            /\ pc[a] = "Done"
            /\ result[a] = Some(Ok("unit"))
            /\ Unwrap(client[a][1].built).cookies = a
            /\ \A n \in CookieNames :
                 ExchangeCookie(a, n) # None => client[a][1].jar[n] = ExchangeCookie(a, n)
            /\ \A n \in CookieNames :
                 cookie_jar[a][n] \in {client[a][1].jar[n]}
                                        \cup {Some([value |-> 7, persistent |-> p]) :
                                                p \in BOOLEAN}
            /\ (client[a][1].snapshot # None /\ IsOk(client[a][1].snapshot[1])) =>
                 Unwrap(client[a][1].snapshot[1]) = save_json(cookie_jar[a])
       /\ (client[a] # None /\ pc[a] = "Failed") => client[a][1].built = result[a][1]
  /\ Built(0) =>
       /\ Unwrap(client[0][1].built).cookies = 0
       /\ client[0][1].jar = EmptyJar
       /\ \A n \in CookieNames :
            qr_jar[n] \in {None} \cup {Some([value |-> 7, persistent |-> p]) : p \in BOOLEAN}
       /\ (client[0][1].snapshot # None /\ IsOk(client[0][1].snapshot[1])) =>
            Unwrap(client[0][1].snapshot[1]) = save_json(qr_jar)

\* C29 witness: the exchange response set persistent cookies, the attempt
\* returned Ok, the client built on its store snapshotted them, and a client
\* built without a credential has taken its snapshot too.
C29_Witness ==
  /\ Built(1)
  /\ ExchangeCookie(1, "SESSDATA") # None
  /\ ExchangeCookie(1, "SESSDATA")[1].persistent
  /\ client[1][1].snapshot # None
  /\ IsOk(client[1][1].snapshot[1])
  /\ Unwrap(client[1][1].snapshot[1])["SESSDATA"] = ExchangeCookie(1, "SESSDATA")
  /\ Built(0)
  /\ client[0][1].snapshot # None

\* -------------------------------------------------------- key fragment claims
\* Every string of '/', '.' and a letter of up to MaxUrlLen characters.
UrlStrings == UNION {[1..n -> {"/", ".", "a"}] : n \in 0..MaxUrlLen}
\* The last derivation read a response that has data.
DerivedData == derived # None /\ derived[1].resp.wire = "ok" /\ derived[1].resp.data # None

====
